---- MODULE Spec2Model ----
(***************************************************************************)
(* A model of the trader's decision engine:                                *)
(*   - the round/event transition table of DecisionMakerAbciApp            *)
(*     (decision_maker_abci/rounds.py),                                    *)
(*   - the threshold collection of PredictionRound                         *)
(*     (decision_maker_abci/states/prediction.py),                         *)
(*   - the bet sampling of SamplingBehaviour                               *)
(*     (decision_maker_abci/behaviours/sampling.py),                       *)
(*   - the bet registry update of UpdateBetsBehaviour                      *)
(*     (market_manager_abci/behaviours.py).                                *)
(* Each part has its own specification over the shared variables; the      *)
(* variables of the other parts stay at their initial values.              *)
(***************************************************************************)
EXTENDS Integers, Sequences, FiniteSets, TLC

VARIABLES
    \* ---- transition table ----
    entry_round,        \* the round at which this run of the app was entered
    current_round,      \* the active round
    prev_round,         \* the round left by the last transition
    last_event,         \* the event of the last transition
    db_keys,            \* keys present in the synchronized data
    steps,              \* number of transitions taken
    \* ---- PredictionRound ----
    collection,         \* payloads of the round in arrival order: <<sender, prediction_event>>
    synchronized_data,  \* participant_to_prediction / most_voted_prediction
    end_block_result,   \* what the last end_block call returned
    pred_round,         \* the round the engine is in, as seen from PredictionRound
    consensus_threshold,\* the configured quorum
    blocks,             \* number of end_block calls so far
    \* ---- bets: registry, store, sampling ----
    bets,               \* self.bets, the in-memory registry
    stored_bets,        \* the content of bets.json
    synced_timestamp,   \* the consensus timestamp
    most_voted_randomness, \* the randomness the agents agreed on
    should_rebet,       \* SamplingBehaviour.should_rebet
    liquidity_cache,    \* shared_state.liquidity_cache
    sampling_pc,        \* position of the sampling behaviour
    sampling_payload,   \* the payload of the last sampling
    samplings,          \* number of samplings so far
    sampling_history,   \* the inputs and the result of every sampling so far
    \* ---- bets: update ----
    update_pc,          \* position of the update behaviour
    fetch_status,       \* QueryingBehaviour._fetch_status
    chunks_left,        \* fetches the loop of _update_bets may still make
    update_payload,     \* the payload of the last update
    periods,            \* number of update periods so far
    update_now,         \* the timestamp of the update period under way
    is_checkpoint_reached, \* synchronized_data.is_checkpoint_reached of that period
    restarts,           \* how many times the agent's process was started again
    merged,             \* the fetched record the loop of _process_chunk merged last
    \* ---- prediction behaviour and its oracle ----
    market_question,    \* synchronized_data.sampled_bet.question
    environ,            \* the environment variables the oracle's clients read
    supabase_failure,   \* the data fetch that fails, if any
    llm_response,       \* what the model call returns, Nothing when the call fails
    prediction_pc,      \* position of the prediction behaviour
    prediction_result,  \* what run_prediction returned
    prediction_payload, \* the payload the behaviour submitted
    \* ---- the supafund_trader strategy ----
    strategy_kwargs,    \* the keyword arguments run() is called with
    strategy_result     \* what run() returned, Nothing before the call

table_vars == <<entry_round, current_round, prev_round, last_event, db_keys, steps>>
pred_vars == <<collection, synchronized_data, end_block_result, pred_round,
               consensus_threshold, blocks>>
bets_vars == <<bets, stored_bets, synced_timestamp, most_voted_randomness>>
sampling_vars == <<should_rebet, liquidity_cache, sampling_pc, sampling_payload,
                   samplings, sampling_history, restarts>>
update_vars ==
    <<update_pc, fetch_status, chunks_left, update_payload, periods, update_now,
      is_checkpoint_reached, merged>>
oracle_vars ==
    <<market_question, environ, supabase_failure, llm_response, prediction_pc,
      prediction_result, prediction_payload>>
strategy_vars == <<strategy_kwargs, strategy_result>>
vars ==
    <<table_vars, pred_vars, bets_vars, sampling_vars, update_vars, oracle_vars,
      strategy_vars>>

\* Python's None, where the other values are strings.
None == "None"

\* An optional value that is not a string: Nothing for None, Some(x) for x.
Nothing == <<>>
Some(x) == <<x>>

(***************************************************************************)
(* Bounds of the model.                                                    *)
(***************************************************************************)
MaxSteps == 8
MaxBlocks == 3
MaxSamplings == 2
MaxPeriods == 2
MaxChunks == 2


(***************************************************************************)
(* Part 1: the transition table of DecisionMakerAbciApp                    *)
(***************************************************************************)
initial_round_cls == "CheckBenchmarkingModeRound"

\* The entry rounds of the app named by its docstring ("Initial states").
initial_states ==
    {"CheckBenchmarkingModeRound", "ClaimRound", "HandleFailedTxRound",
     "RandomnessRound", "RedeemRound"}

\* The table, round by round: the events of a round with the round each leads to,
\* as <<round, event, next round>>.
ClaimRound_transitions ==
    { <<"ClaimRound", "DONE", "SamplingRound">>,
      <<"ClaimRound", "NO_MAJORITY", "ClaimRound">>,
      <<"ClaimRound", "ROUND_TIMEOUT", "ClaimRound">>,
      <<"ClaimRound", "SUBSCRIPTION_ERROR", "ClaimRound">> }

HandleFailedTxRound_transitions ==
    { <<"HandleFailedTxRound", "NO_OP", "RedeemRound">>,
      <<"HandleFailedTxRound", "BLACKLIST", "BlacklistingRound">>,
      <<"HandleFailedTxRound", "NO_MAJORITY", "HandleFailedTxRound">> }

RandomnessRound_transitions ==
    { <<"RandomnessRound", "DONE", "SamplingRound">>,
      <<"RandomnessRound", "ROUND_TIMEOUT", "RandomnessRound">>,
      <<"RandomnessRound", "NO_MAJORITY", "RandomnessRound">>,
      <<"RandomnessRound", "NONE", "ImpossibleRound">> }

BenchmarkingRandomnessRound_transitions ==
    { <<"BenchmarkingRandomnessRound", "DONE", "SamplingRound">>,
      <<"BenchmarkingRandomnessRound", "ROUND_TIMEOUT", "BenchmarkingRandomnessRound">>,
      <<"BenchmarkingRandomnessRound", "NO_MAJORITY", "BenchmarkingRandomnessRound">>,
      <<"BenchmarkingRandomnessRound", "NONE", "ImpossibleRound">> }

SubscriptionRound_transitions ==
    { <<"SubscriptionRound", "DONE", "FinishedSubscriptionRound">>,
      <<"SubscriptionRound", "NO_SUBSCRIPTION", "SamplingRound">>,
      <<"SubscriptionRound", "SUBSCRIPTION_ERROR", "SubscriptionRound">>,
      <<"SubscriptionRound", "NO_MAJORITY", "SubscriptionRound">>,
      <<"SubscriptionRound", "ROUND_TIMEOUT", "SubscriptionRound">>,
      <<"SubscriptionRound", "NONE", "SubscriptionRound">>,
      <<"SubscriptionRound", "MOCK_TX", "SamplingRound">> }

\* SamplingRound's events with the destinations of NONE and FETCH_ERROR exchanged.
SamplingRound_transitions_exchanged ==
    { <<"SamplingRound", "DONE", "SubscriptionRound">>,
      <<"SamplingRound", "BENCHMARKING_ENABLED", "PredictionRound">>,
      <<"SamplingRound", "NONE", "ImpossibleRound">>,
      <<"SamplingRound", "FETCH_ERROR", "FinishedWithoutDecisionRound">>,
      <<"SamplingRound", "NO_MAJORITY", "SamplingRound">>,
      <<"SamplingRound", "ROUND_TIMEOUT", "SamplingRound">>,
      <<"SamplingRound", "BENCHMARKING_FINISHED", "BenchmarkingDoneRound">>,
      <<"SamplingRound", "NEW_SIMULATED_RESAMPLE", "SamplingRound">> }

SamplingRound_transitions ==
    { <<"SamplingRound", "DONE", "SubscriptionRound">>,
      <<"SamplingRound", "BENCHMARKING_ENABLED", "PredictionRound">>,
      <<"SamplingRound", "NONE", "FinishedWithoutDecisionRound">>,
      <<"SamplingRound", "FETCH_ERROR", "ImpossibleRound">>,
      <<"SamplingRound", "NO_MAJORITY", "SamplingRound">>,
      <<"SamplingRound", "ROUND_TIMEOUT", "SamplingRound">>,
      <<"SamplingRound", "BENCHMARKING_FINISHED", "BenchmarkingDoneRound">>,
      <<"SamplingRound", "NEW_SIMULATED_RESAMPLE", "SamplingRound">> }

PredictionRound_transitions ==
    { <<"PredictionRound", "DONE", "BetPlacementRound">>,
      <<"PredictionRound", "UNPROFITABLE", "BlacklistingRound">>,
      <<"PredictionRound", "ROUND_TIMEOUT", "PredictionRound">>,
      <<"PredictionRound", "NO_MAJORITY", "PredictionRound">> }

BetPlacementRound_transitions ==
    { <<"BetPlacementRound", "DONE", "FinishedDecisionMakerRound">>,
      <<"BetPlacementRound", "INSUFFICIENT_BALANCE", "RefillRequiredRound">>,
      <<"BetPlacementRound", "NO_MAJORITY", "BetPlacementRound">>,
      <<"BetPlacementRound", "ROUND_TIMEOUT", "BetPlacementRound">>,
      <<"BetPlacementRound", "NONE", "ImpossibleRound">>,
      <<"BetPlacementRound", "MOCK_TX", "RedeemRound">>,
      <<"BetPlacementRound", "CALC_BUY_AMOUNT_FAILED", "HandleFailedTxRound">> }

RedeemRound_transitions ==
    { <<"RedeemRound", "DONE", "FinishedDecisionMakerRound">>,
      <<"RedeemRound", "NO_REDEEMING", "FinishedWithoutRedeemingRound">>,
      <<"RedeemRound", "REDEEM_ROUND_TIMEOUT", "FinishedWithoutRedeemingRound">>,
      <<"RedeemRound", "NO_MAJORITY", "RedeemRound">>,
      <<"RedeemRound", "NONE", "ImpossibleRound">>,
      <<"RedeemRound", "MOCK_TX", "SamplingRound">> }

\* BlacklistingRound's events with a timeout that leaves the round.
BlacklistingRound_transitions_timeout_leaves ==
    { <<"BlacklistingRound", "DONE", "FinishedWithoutDecisionRound">>,
      <<"BlacklistingRound", "NO_MAJORITY", "BlacklistingRound">>,
      <<"BlacklistingRound", "ROUND_TIMEOUT", "ImpossibleRound">>,
      <<"BlacklistingRound", "NONE", "ImpossibleRound">>,
      <<"BlacklistingRound", "FETCH_ERROR", "ImpossibleRound">>,
      <<"BlacklistingRound", "MOCK_TX", "FinishedWithoutDecisionRound">> }

BlacklistingRound_transitions ==
    { <<"BlacklistingRound", "DONE", "FinishedWithoutDecisionRound">>,
      <<"BlacklistingRound", "NO_MAJORITY", "BlacklistingRound">>,
      <<"BlacklistingRound", "ROUND_TIMEOUT", "BlacklistingRound">>,
      <<"BlacklistingRound", "NONE", "ImpossibleRound">>,
      <<"BlacklistingRound", "FETCH_ERROR", "ImpossibleRound">>,
      <<"BlacklistingRound", "MOCK_TX", "FinishedWithoutDecisionRound">> }

\* CheckBenchmarkingModeRound's events with the benchmarking mode entering the
\* sampling at once, without the randomness round.
CheckBenchmarkingModeRound_transitions_no_randomness ==
    { <<"CheckBenchmarkingModeRound", "BENCHMARKING_ENABLED", "SamplingRound">>,
      <<"CheckBenchmarkingModeRound", "BENCHMARKING_DISABLED", "BenchmarkingModeDisabledRound">>,
      <<"CheckBenchmarkingModeRound", "SUBSCRIPTION_ERROR", "ImpossibleRound">>,
      <<"CheckBenchmarkingModeRound", "NO_MAJORITY", "CheckBenchmarkingModeRound">>,
      <<"CheckBenchmarkingModeRound", "ROUND_TIMEOUT", "CheckBenchmarkingModeRound">>,
      <<"CheckBenchmarkingModeRound", "NONE", "ImpossibleRound">>,
      <<"CheckBenchmarkingModeRound", "DONE", "ImpossibleRound">> }

CheckBenchmarkingModeRound_transitions ==
    { <<"CheckBenchmarkingModeRound", "BENCHMARKING_ENABLED", "BenchmarkingRandomnessRound">>,
      <<"CheckBenchmarkingModeRound", "BENCHMARKING_DISABLED", "BenchmarkingModeDisabledRound">>,
      <<"CheckBenchmarkingModeRound", "SUBSCRIPTION_ERROR", "ImpossibleRound">>,
      <<"CheckBenchmarkingModeRound", "NO_MAJORITY", "CheckBenchmarkingModeRound">>,
      <<"CheckBenchmarkingModeRound", "ROUND_TIMEOUT", "CheckBenchmarkingModeRound">>,
      <<"CheckBenchmarkingModeRound", "NONE", "ImpossibleRound">>,
      <<"CheckBenchmarkingModeRound", "DONE", "ImpossibleRound">> }

transition_function ==
    ClaimRound_transitions
        \cup HandleFailedTxRound_transitions
        \cup RandomnessRound_transitions
        \cup BenchmarkingRandomnessRound_transitions
        \cup SubscriptionRound_transitions
        \cup SamplingRound_transitions
        \cup PredictionRound_transitions
        \cup BetPlacementRound_transitions
        \cup RedeemRound_transitions
        \cup BlacklistingRound_transitions
        \cup CheckBenchmarkingModeRound_transitions

final_states ==
    {"FinishedDecisionMakerRound", "FinishedWithoutDecisionRound", "ImpossibleRound",
     "BenchmarkingDoneRound", "BenchmarkingModeDisabledRound",
     "FinishedWithoutRedeemingRound", "RefillRequiredRound", "FinishedSubscriptionRound"}

db_pre_conditions ==
    ("BenchmarkingRandomnessRound" :> {}) @@
    ("BetPlacementRound" :> {"most_voted_randomness", "participant_to_sampling"}) @@
    ("BlacklistingRound" :> {"most_voted_randomness", "participant_to_sampling"}) @@
    ("CheckBenchmarkingModeRound" :> {}) @@
    ("ClaimRound" :> {"most_voted_randomness", "participant_to_sampling"}) @@
    ("HandleFailedTxRound" :> {}) @@
    ("RandomnessRound" :> {}) @@
    ("RedeemRound" :> {"most_voted_randomness", "participant_to_sampling"}) @@
    ("SamplingRound" :> {"most_voted_randomness"}) @@
    ("SubscriptionRound" :> {})

db_post_conditions ==
    ("BenchmarkingDoneRound" :> {}) @@
    ("BenchmarkingModeDisabledRound" :> {}) @@
    ("BenchmarkingRandomnessRound" :> {"most_voted_randomness"}) @@
    ("BetPlacementRound" :> {"tx_hashes_history"}) @@
    ("BlacklistingRound" :> {"participant_to_blacklist"}) @@
    ("CheckBenchmarkingModeRound" :> {}) @@
    ("ClaimRound" :> {"participant_to_subscription"}) @@
    ("FinishedDecisionMakerRound" :> {}) @@
    ("FinishedSubscriptionRound" :> {}) @@
    ("FinishedWithoutDecisionRound" :> {}) @@
    ("FinishedWithoutRedeemingRound" :> {}) @@
    ("HandleFailedTxRound" :> {}) @@
    ("ImpossibleRound" :> {}) @@
    ("RandomnessRound" :> {"most_voted_randomness"}) @@
    ("RedeemRound" :> {"participant_to_redeem"}) @@
    ("RefillRequiredRound" :> {}) @@
    ("SamplingRound" :> {"participant_to_sampling"}) @@
    ("SubscriptionRound" :> {"participant_to_subscription"})

\* The events that have a timeout, with their durations in seconds.
event_to_timeout == ("ROUND_TIMEOUT" :> 30) @@ ("REDEEM_ROUND_TIMEOUT" :> 60)

TimeoutEvents == DOMAIN event_to_timeout

\* The keys a round declares; a round without a declaration requires (guarantees) none.
PreConditions(round) ==
    IF round \in DOMAIN db_pre_conditions THEN db_pre_conditions[round] ELSE {}

PostConditions(round) ==
    IF round \in DOMAIN db_post_conditions THEN db_post_conditions[round] ELSE {}

\* A round is left without completing on NO_MAJORITY and on a timeout.
CompletesRound(event) == event # "NO_MAJORITY" /\ event \notin TimeoutEvents

TableInit ==
    /\ entry_round \in initial_states
    /\ current_round = entry_round
    /\ prev_round = None
    /\ last_event = None
    /\ db_keys = PreConditions(entry_round)
    /\ steps = 0

\* The engine's step: the active round ends with `event`, its post-condition keys are
\* written when it completed, and the round the table names for (round, event) is entered.
process_event(event, destination) ==
    /\ steps < MaxSteps
    /\ <<current_round, event, destination>> \in transition_function
    /\ current_round' = destination
    /\ prev_round' = current_round
    /\ last_event' = event
    /\ db_keys' = IF CompletesRound(event)
                  THEN db_keys \cup PostConditions(current_round)
                  ELSE db_keys
    /\ steps' = steps + 1
    /\ UNCHANGED entry_round
    /\ UNCHANGED <<pred_vars, bets_vars, sampling_vars, update_vars, oracle_vars,
            strategy_vars>>

\* The active round ends with one of the events the table has for it.
EndRound ==
    \E t \in transition_function : process_event(t[2], t[3])

TableNext == EndRound

\* The engine's step with no bound on the number of steps of the run.
process_event_uncounted(event, destination) ==
    /\ <<current_round, event, destination>> \in transition_function
    /\ current_round' = destination
    /\ prev_round' = current_round
    /\ last_event' = event
    /\ db_keys' = IF CompletesRound(event)
                  THEN db_keys \cup PostConditions(current_round)
                  ELSE db_keys
    /\ UNCHANGED <<entry_round, steps>>
    /\ UNCHANGED <<pred_vars, bets_vars, sampling_vars, update_vars, oracle_vars,
            strategy_vars>>

\* The active round completes: it ends with an event that is neither NO_MAJORITY nor
\* a timeout.
CompleteRound ==
    \E t \in transition_function :
        CompletesRound(t[2]) /\ process_event_uncounted(t[2], t[3])

\* The active round ends with NO_MAJORITY or with a timeout.
RetryRound ==
    \E t \in transition_function :
        ~CompletesRound(t[2]) /\ process_event_uncounted(t[2], t[3])

TableLiveNext == CompleteRound \/ RetryRound

(***************************************************************************)
(* Part 2: PredictionRound, a CollectSameUntilThresholdRound               *)
(***************************************************************************)
all_participants == <<"agent_0", "agent_1", "agent_2", "agent_3">>

\* The values of PredictionPayload.prediction_event the behaviour submits:
\* Event.DONE.value and Event.UNPROFITABLE.value.
prediction_events == {"done", "unprofitable"}

\* The quorums the round may be configured with.
consensus_thresholds == {2, 3}

Range(seq) == {seq[i] : i \in DOMAIN seq}

Senders(col) == {col[i][1] : i \in DOMAIN col}

\* Number of payloads of the collection that carry `value`.
payload_values_count(col, value) ==
    Cardinality({i \in DOMAIN col : col[i][2] = value})

\* The values of the collection in the order of their first arrival.
RECURSIVE values_in_order(_)
values_in_order(col) ==
    IF col = <<>> THEN <<>>
    ELSE LET rest == values_in_order(SubSeq(col, 1, Len(col) - 1))
             v == col[Len(col)][2]
         IN IF v \in Range(rest) THEN rest ELSE Append(rest, v)

\* submit: a payload of a sender that has one already replaces it in place,
\* another one is added after those that arrived before.
process_payload(col, sender, value) ==
    IF sender \in Senders(col)
    THEN [i \in DOMAIN col |-> IF col[i][1] = sender THEN <<sender, value>> ELSE col[i]]
    ELSE Append(col, <<sender, value>>)

threshold_reached(col, threshold) ==
    \E v \in prediction_events : payload_values_count(col, v) >= threshold

\* The mapping value -> votes of the values that reached the threshold, as the
\* sequence of its items in iteration order (the order of first arrival).
most_voted_payload_with_threshold(col, threshold) ==
    LET order == values_in_order(col)
        keep == {i \in DOMAIN order : payload_values_count(col, order[i]) >= threshold}
        RECURSIVE items(_)
        items(i) ==
            IF i > Len(order) THEN <<>>
            ELSE IF i \in keep
                 THEN <<<<order[i], payload_values_count(col, order[i])>>>> \o items(i + 1)
                 ELSE items(i + 1)
    IN items(1)

\* Python's max(mapping, key=mapping.get): the first key, in iteration order, whose
\* value no other key's value exceeds.
max_by_get(items) ==
    LET best == CHOOSE i \in DOMAIN items :
                    /\ \A j \in DOMAIN items : items[j][2] <= items[i][2]
                    /\ \A j \in 1..(i - 1) : items[j][2] < items[i][2]
    IN items[best][1]

\* The value PredictionRound.end_block selects as the most voted one.
prediction_event(col, threshold) ==
    max_by_get(most_voted_payload_with_threshold(col, threshold))

\* What end_block of the parent class returns: the event of the round's outcome, or
\* None while the round goes on. PredictionRound drops this result.
CollectSameUntilThresholdRound_end_block(col, threshold) ==
    IF threshold_reached(col, threshold) THEN "DONE" ELSE None

\* An end_block that writes the collection whether or not the threshold is reached.
PredictionRound_update_unguarded(col, threshold, data) ==
    [participant_to_prediction |-> Some(col),
     most_voted_prediction |->
         IF threshold_reached(col, threshold) THEN prediction_event(col, threshold)
         ELSE data.most_voted_prediction]

\* The synchronized data after PredictionRound.end_block.
PredictionRound_update(col, threshold, data) ==
    IF threshold_reached(col, threshold)
    THEN [participant_to_prediction |-> Some(col),
          most_voted_prediction |-> prediction_event(col, threshold)]
    ELSE data

\* What PredictionRound.end_block returns: it has no return statement.
PredictionRound_end_block(col, threshold) ==
    LET dropped == CollectSameUntilThresholdRound_end_block(col, threshold)
    IN None

\* The round the engine is in after an end_block that returned `result`.
RoundAfter(round, result) ==
    IF result = None THEN round
    ELSE LET next == {t \in transition_function : t[1] = round /\ t[2] = result}
         IN IF next = {} THEN round ELSE (CHOOSE t \in next : TRUE)[3]

PredInit ==
    /\ collection = <<>>
    /\ synchronized_data = [participant_to_prediction |-> Nothing,
                            most_voted_prediction |-> None]
    /\ end_block_result = None
    /\ pred_round = "PredictionRound"
    /\ consensus_threshold \in consensus_thresholds
    /\ blocks = 0

\* A participant's payload is delivered to the round.
SubmitPayload ==
    \E k \in DOMAIN all_participants, value \in prediction_events :
      LET sender == all_participants[k] IN
        \* No operation reads a sender's name: the participants are interchangeable,
        \* and the k-th of them to send a first payload is called all_participants[k].
        /\ k <= Len(collection) + 1
        /\ pred_round = "PredictionRound"
        /\ collection' = process_payload(collection, sender, value)
        /\ collection' # collection
        /\ UNCHANGED <<synchronized_data, end_block_result, pred_round,
                       consensus_threshold, blocks>>
        /\ UNCHANGED <<table_vars, bets_vars, sampling_vars, update_vars, oracle_vars,
            strategy_vars>>

\* The end of a block: the engine calls the round's end_block and processes the
\* event it returns, if any.
EndBlock ==
    /\ pred_round = "PredictionRound"
    /\ blocks < MaxBlocks
    /\ blocks' = blocks + 1
    /\ synchronized_data' =
           PredictionRound_update(collection, consensus_threshold, synchronized_data)
    /\ end_block_result' = PredictionRound_end_block(collection, consensus_threshold)
    /\ pred_round' = RoundAfter(pred_round, end_block_result')
    /\ UNCHANGED <<collection, consensus_threshold>>
    /\ UNCHANGED <<table_vars, bets_vars, sampling_vars, update_vars, oracle_vars,
            strategy_vars>>

\* The round's timeout fires: the engine processes ROUND_TIMEOUT, which enters a new
\* instance of the round the table names, with an empty collection.
RoundTimeout ==
    /\ pred_round = "PredictionRound"
    /\ collection # <<>>
    /\ pred_round' = RoundAfter(pred_round, "ROUND_TIMEOUT")
    /\ collection' = <<>>
    /\ end_block_result' = None
    /\ UNCHANGED <<synchronized_data, consensus_threshold, blocks>>
    /\ UNCHANGED <<table_vars, bets_vars, sampling_vars, update_vars, oracle_vars,
            strategy_vars>>

PredNext == SubmitPayload \/ EndBlock \/ RoundTimeout

(***************************************************************************)
(* Part 3: the bets and their sampling (SamplingBehaviour)                 *)
(***************************************************************************)
WEEKDAYS == 7
UNIX_DAY == 60 * 60 * 24
UNIX_WEEK == WEEKDAYS * UNIX_DAY

\* self.params
sample_bets_closing_days == 10
opening_margin == 300
safe_voting_range == 600
rebet_chance == 50          \* in hundredths

\* The state of the bets file: absent, or the list of bets it holds.
NoFile == Nothing
File(registry) == Some(registry)

BetIds == <<"b1", "b2">>

QueueStatus == {"FRESH", "TO_PROCESS", "EXPIRED"}

\* The timestamps of the model: three sampling times, and two opening times of which
\* the first is in both time windows at the first two sampling times and the second
\* at the last two.
Timestamps == {UNIX_DAY, 2 * UNIX_DAY, 3 * UNIX_DAY}
OpeningTimestamps == {3 * UNIX_DAY + 900, 11 * UNIX_DAY + 1}
Liquidities == {0, 5, 10}
QueueNumbers == {0, 1}
ProcessedTimestamps == {0, 100, UNIX_DAY}

\* The bookkeeping of a bet that was never processed, of one that was processed and
\* not bet on, and of those that were bet on.
Bookkeeping ==
    { [n_bets |-> 0, invested_amount |-> 0, processed_timestamp |-> 0],
      [n_bets |-> 0, invested_amount |-> 0, processed_timestamp |-> 100],
      [n_bets |-> 1, invested_amount |-> 1, processed_timestamp |-> 100],
      [n_bets |-> 1, invested_amount |-> 1, processed_timestamp |-> UNIX_DAY],
      [n_bets |-> 1, invested_amount |-> 2, processed_timestamp |-> 100] }

Bet(id, opening, liquidity, queue_no, book, status) ==
    [id |-> id,
     openingTimestamp |-> opening,
     scaledLiquidityMeasure |-> liquidity,
     queue_no |-> queue_no,
     processed_timestamp |-> book.processed_timestamp,
     n_bets |-> book.n_bets,
     invested_amount |-> book.invested_amount,
     queue_status |-> status]

\* The bets with the given id that a stored registry may hold when a sampling starts.
StoredBetsOf(id) ==
    { Bet(id, o, l, q, b, s) :
        o \in OpeningTimestamps, l \in Liquidities, q \in QueueNumbers,
        b \in Bookkeeping, s \in {"TO_PROCESS", "EXPIRED"} }

\* The stored registries: one bet, or two of which the first may be EXPIRED.
StoredRegistries ==
    { <<x>> : x \in StoredBetsOf(BetIds[1]) }
        \cup { <<x, y>> : x \in StoredBetsOf(BetIds[1]),
                          y \in {b \in StoredBetsOf(BetIds[2]) : b.queue_status = "TO_PROCESS"} }

\* The randomness values the agents may have agreed on.
Randomness == {"r1", "r2"}

\* random.seed(seed); random.random(), in hundredths: a fixed function of the seed.
random_random(seed) == IF seed = "r1" THEN 25 ELSE 75

EmptyCache == [id \in Range(BetIds) |-> Nothing]

\* serialize_bets: None for an empty list.
serialize_bets(registry) == IF registry = <<>> THEN Nothing ELSE Some(registry)

\* A store that writes the registry whatever it holds.
store_bets_unconditional(registry, file) == <<registry>>

\* The bets file after store_bets.
store_bets(registry, file) ==
    LET serialized == serialize_bets(registry)
    IN IF serialized = Nothing THEN file ELSE File(serialized[1])

\* self.bets after read_bets.
read_bets(file) == IF file = NoFile THEN <<>> ELSE file[1]

\* The content hash of the bets file.
hash_stored_bets(file) == <<"hash", file>>

\* A setup that draws whether or not a bet was placed in the past.
setup_should_rebet_always_draws(registry, randomness, rebet) ==
    random_random(randomness) <= rebet_chance

\* self.should_rebet after setup.
setup_should_rebet(registry, randomness, rebet) ==
    LET has_bet_in_the_past == \E i \in DOMAIN registry : registry[i].n_bets > 0
    IN IF has_bet_in_the_past THEN random_random(randomness) <= rebet_chance ELSE rebet

\* A liquidity test that never finds the liquidity unchanged.
has_liquidity_changed_always(bet, cache) == TRUE

has_liquidity_changed(bet, cache) ==
    LET previous_bet_liquidity == cache[bet.id]
    IN Some(bet.scaledLiquidityMeasure) # previous_bet_liquidity

\* A test of the time windows that leaves out the safe voting range.
within_ranges_opening_only(bet, now) ==
    bet.openingTimestamp <= now + sample_bets_closing_days * UNIX_DAY

within_ranges(bet, now) ==
    LET within_opening_range ==
            bet.openingTimestamp <= now + sample_bets_closing_days * UNIX_DAY
        within_safe_range ==
            now < bet.openingTimestamp - opening_margin - safe_voting_range
    IN within_opening_range /\ within_safe_range

\* A rebetting test whose waiting time leaves out the day.
can_rebet_without_day(bet, now) ==
    now >= bet.processed_timestamp + ((bet.openingTimestamp - now) \div UNIX_WEEK)

can_rebet(bet, now) ==
    LET lifetime == bet.openingTimestamp - now
        t_rebetting == (lifetime \div UNIX_WEEK) + UNIX_DAY
    IN now >= bet.processed_timestamp + t_rebetting

processable_bet(bet, now, rebet, cache) ==
    IF rebet # (bet.n_bets # 0) THEN FALSE
    ELSE IF ~rebet THEN within_ranges(bet, now) /\ has_liquidity_changed(bet, cache)
    ELSE within_ranges(bet, now) /\ can_rebet(bet, now)

\* Comparison of two keys (tuples of numbers of the same length), as Python compares tuples.
RECURSIVE TupleLess(_, _)
TupleLess(a, b) ==
    IF a = <<>> THEN FALSE
    ELSE IF a[1] # b[1] THEN a[1] < b[1]
    ELSE TupleLess(Tail(a), Tail(b))

\* The first element of list.sort(key=..., reverse=True) of the bets at the positions
\* `positions` (a non-empty set, in list order), `keys` giving the sort key of each
\* position: the sort is stable, so it is the earliest of those whose key is greatest.
FirstOfSortedReverse(keys, positions) ==
    CHOOSE i \in positions :
        /\ \A j \in positions : ~TupleLess(keys[i], keys[j])
        /\ \A j \in positions : j < i => TupleLess(keys[j], keys[i])

\* A sort key of the new bets with the opening time before the liquidity.
new_bets_key_opening_first(bet) == <<bet.openingTimestamp, bet.scaledLiquidityMeasure>>

new_bets_key(bet) == <<bet.scaledLiquidityMeasure, bet.openingTimestamp>>

\* A sort key of the priority bets whose processed_timestamp is not negated.
priority_bets_key_latest_first(bet) ==
    <<bet.invested_amount, bet.processed_timestamp,
      bet.scaledLiquidityMeasure, bet.openingTimestamp>>

priority_bets_key(bet) ==
    <<bet.invested_amount, -bet.processed_timestamp,
      bet.scaledLiquidityMeasure, bet.openingTimestamp>>

\* self.bets.index(bet): the first position that holds an equal bet.
index(registry, bet) ==
    CHOOSE i \in DOMAIN registry :
        registry[i] = bet /\ \A j \in 1..(i - 1) : registry[j] # bet

\* A choice that sorts all the available bets, whatever their queue number.
sampled_bet_idx_priority_of_all(registry, available) ==
    LET new_in_priority_bets == {i \in available : registry[i].processed_timestamp = 0}
    IN IF new_in_priority_bets # {}
       THEN index(registry,
                  registry[FirstOfSortedReverse(
                               [i \in new_in_priority_bets |-> new_bets_key(registry[i])],
                               new_in_priority_bets)])
       ELSE index(registry,
                  registry[FirstOfSortedReverse(
                               [i \in available |-> priority_bets_key(registry[i])],
                               available)])

\* A choice that looks for the new bets among the priority bets only.
sampled_bet_idx_new_of_priority(registry, available) ==
    LET least_queue_number ==
            CHOOSE q \in {registry[i].queue_no : i \in available} :
                \A i \in available : q <= registry[i].queue_no
        priority_bets == {i \in available : registry[i].queue_no = least_queue_number}
        new_in_priority_bets == {i \in priority_bets : registry[i].processed_timestamp = 0}
    IN IF new_in_priority_bets # {}
       THEN index(registry,
                  registry[FirstOfSortedReverse(
                               [i \in new_in_priority_bets |-> new_bets_key(registry[i])],
                               new_in_priority_bets)])
       ELSE index(registry,
                  registry[FirstOfSortedReverse(
                               [i \in priority_bets |-> priority_bets_key(registry[i])],
                               priority_bets)])

\* _sampled_bet_idx, given the positions of the available bets: a position of the registry.
sampled_bet_idx(registry, available) ==
    LET least_queue_number ==
            CHOOSE q \in {registry[i].queue_no : i \in available} :
                \A i \in available : q <= registry[i].queue_no
        priority_bets == {i \in available : registry[i].queue_no = least_queue_number}
        new_in_priority_bets == {i \in available : registry[i].processed_timestamp = 0}
    IN IF new_in_priority_bets # {}
       THEN index(registry,
                  registry[FirstOfSortedReverse(
                               [i \in new_in_priority_bets |-> new_bets_key(registry[i])],
                               new_in_priority_bets)])
       ELSE index(registry,
                  registry[FirstOfSortedReverse(
                               [i \in priority_bets |-> priority_bets_key(registry[i])],
                               priority_bets)])

\* A sampling that returns the candidate whatever its liquidity.
sample_without_zero_test(registry, now, rebet, cache) ==
    LET available_bets ==
            {i \in DOMAIN registry : processable_bet(registry[i], now, rebet, cache)}
    IN IF available_bets = {}
       THEN [idx |-> Nothing, cache |-> cache]
       ELSE LET pos == sampled_bet_idx(registry, available_bets)
                sampled_bet == registry[pos]
                liquidity == sampled_bet.scaledLiquidityMeasure
            IN [idx |-> Some(pos - 1),
                cache |-> [cache EXCEPT ![sampled_bet.id] = Some(liquidity)]]

\* A sampling that records the candidate's liquidity before it tests it.
sample_caching_first(registry, now, rebet, cache) ==
    LET available_bets ==
            {i \in DOMAIN registry : processable_bet(registry[i], now, rebet, cache)}
    IN IF available_bets = {}
       THEN [idx |-> Nothing, cache |-> cache]
       ELSE LET pos == sampled_bet_idx(registry, available_bets)
                sampled_bet == registry[pos]
                liquidity == sampled_bet.scaledLiquidityMeasure
            IN [idx |-> IF liquidity = 0 THEN Nothing ELSE Some(pos - 1),
                cache |-> [cache EXCEPT ![sampled_bet.id] = Some(liquidity)]]

\* _sample: the index it returns (Nothing, or a position counted from 0) and the
\* liquidity cache it leaves.
sample(registry, now, rebet, cache) ==
    LET available_bets ==
            {i \in DOMAIN registry : processable_bet(registry[i], now, rebet, cache)}
    IN IF available_bets = {}
       THEN [idx |-> Nothing, cache |-> cache]
       ELSE LET pos == sampled_bet_idx(registry, available_bets)
                sampled_bet == registry[pos]
                liquidity == sampled_bet.scaledLiquidityMeasure
            IN IF liquidity = 0
               THEN [idx |-> Nothing, cache |-> cache]
               ELSE [idx |-> Some(pos - 1),
                     cache |-> [cache EXCEPT ![sampled_bet.id] = Some(liquidity)]]

\* The fields the constructor of SamplingPayload takes, in order: the sender of
\* BaseTxPayload, then the fields the class declares.
SamplingPayload_fields == <<"sender", "index">>

\* The call of a dataclass constructor with positional arguments: the arguments are
\* bound to the fields in order, and a call with more or fewer arguments than there
\* are fields (none of them has a default) raises TypeError.
dataclass_init(fields, args) ==
    IF Len(args) = Len(fields)
    THEN [raised |-> FALSE, values |-> args]
    ELSE [raised |-> TRUE, values |-> <<>>]

\* SamplingPayload(self.context.agent_address, bets_hash, idx)
SamplingPayload(agent_address, bets_hash, idx) ==
    dataclass_init(SamplingPayload_fields, <<agent_address, bets_hash, idx>>)

\* The fields a constructed payload carries.
payload_fields(payload) ==
    IF payload = Nothing THEN {} ELSE Range(SamplingPayload_fields)

BetsInit ==
    /\ bets = <<>>
    /\ stored_bets \in {NoFile} \cup {File(registry) : registry \in StoredRegistries}
    /\ synced_timestamp \in Timestamps
    /\ most_voted_randomness \in Randomness

SamplingInit ==
    /\ should_rebet = FALSE
    /\ liquidity_cache = EmptyCache
    /\ sampling_pc = "setup"
    /\ sampling_payload = Nothing
    /\ samplings = 0
    /\ sampling_history = <<>>
    /\ restarts = 0

\* SamplingBehaviour.setup; a read of the bets file that fails (it cannot be opened or
\* decoded) leaves self.bets empty. The first read of a run finds the file or no
\* file; the reads after it may fail.
SamplingSetup ==
    /\ sampling_pc = "setup"
    /\ \E read_fails \in {FALSE, samplings > 0} :
           bets' = IF read_fails THEN <<>> ELSE read_bets(stored_bets)
    /\ should_rebet' = setup_should_rebet(bets', most_voted_randomness, should_rebet)
    /\ sampling_pc' = "act"
    /\ UNCHANGED <<stored_bets, synced_timestamp, most_voted_randomness, liquidity_cache,
                   sampling_payload, samplings, sampling_history, restarts>>
    /\ UNCHANGED <<table_vars, pred_vars, update_vars, oracle_vars, strategy_vars>>

\* SamplingBehaviour.async_act
SamplingAct ==
    /\ sampling_pc = "act"
    /\ LET result == sample(bets, synced_timestamp, should_rebet, liquidity_cache)
           idx == result.idx
       IN /\ liquidity_cache' = result.cache
          /\ stored_bets' = store_bets(bets, stored_bets)
          /\ LET bets_hash == IF idx = Nothing THEN Nothing
                               ELSE Some(hash_stored_bets(stored_bets'))
                 payload == SamplingPayload("agent_0", bets_hash, idx)
             IN \* an exception leaves async_act before finish_behaviour(payload)
                /\ sampling_payload' =
                       IF payload.raised THEN Nothing ELSE Some(payload.values)
                /\ sampling_pc' = IF payload.raised THEN "raised" ELSE "done"
          /\ sampling_history' =
                 Append(sampling_history,
                        [registry |-> bets, now |-> synced_timestamp,
                         randomness |-> most_voted_randomness, rebet |-> should_rebet,
                         cache |-> liquidity_cache, index |-> idx,
                         restarts |-> restarts])
    /\ samplings' = samplings + 1
    /\ UNCHANGED <<bets, synced_timestamp, most_voted_randomness, should_rebet, restarts>>
    /\ UNCHANGED <<table_vars, pred_vars, update_vars, oracle_vars, strategy_vars>>

\* The sampling round is entered again, in the same period (after a timeout or with no
\* majority) or in a later one, with the randomness agreed on by then, the process
\* having gone on after an exception of the behaviour, if any: a new behaviour is
\* constructed.
SamplingReenter ==
    /\ sampling_pc \in {"done", "raised"}
    /\ samplings < MaxSamplings
    /\ sampling_pc' = "setup"
    /\ should_rebet' = FALSE
    /\ bets' = <<>>
    /\ most_voted_randomness' \in Randomness
    /\ UNCHANGED <<stored_bets, synced_timestamp, liquidity_cache,
                   sampling_payload, samplings, sampling_history, restarts>>
    /\ UNCHANGED <<table_vars, pred_vars, update_vars, oracle_vars, strategy_vars>>

\* The exception of the behaviour ended the process, and the agent is started again:
\* what the process held in memory is lost, the store is kept.
SamplingRestart ==
    /\ sampling_pc = "raised"
    /\ samplings < MaxSamplings
    /\ sampling_pc' = "setup"
    /\ should_rebet' = FALSE
    /\ bets' = <<>>
    /\ liquidity_cache' = EmptyCache
    /\ restarts' = restarts + 1
    /\ UNCHANGED <<stored_bets, synced_timestamp, most_voted_randomness,
                   sampling_payload, samplings, sampling_history>>
    /\ UNCHANGED <<table_vars, pred_vars, update_vars, oracle_vars, strategy_vars>>

SamplingNext == SamplingSetup \/ SamplingAct \/ SamplingReenter \/ SamplingRestart

(***************************************************************************)
(* Part 4: the update of the bets (UpdateBetsBehaviour)                    *)
(***************************************************************************)
\* The times at which an update period may run: the sampling times and a later one,
\* at which the bets of the earlier opening time are due.
UpdateTimestamps == Timestamps \cup {4 * UNIX_DAY}

FetchStatus == {"NONE", "SUCCESS", "FAIL"}

\* The records a fetch may return.
RawBets ==
    { [id |-> id, openingTimestamp |-> o, scaledLiquidityMeasure |-> l] :
        id \in Range(BetIds), o \in OpeningTimestamps, l \in {5, 10} }

\* What a fetch may return: a list of at most two records, each market once (the two
\* records of a list with the same liquidity), or Nothing when it failed.
Chunks ==
    {Nothing, Some(<<>>)} \cup { Some(<<x>>) : x \in RawBets }
        \cup { Some(<<p[1], p[2]>>) :
                  p \in {q \in RawBets \X RawBets :
                            /\ q[1].id # q[2].id
                            /\ q[1].scaledLiquidityMeasure = q[2].scaledLiquidityMeasure} }

\* Bet(**raw_bet): the bookkeeping of a new bet has its defaults.
NewBet(raw_bet) ==
    [id |-> raw_bet.id,
     openingTimestamp |-> raw_bet.openingTimestamp,
     scaledLiquidityMeasure |-> raw_bet.scaledLiquidityMeasure,
     queue_no |-> 0,
     processed_timestamp |-> 0,
     n_bets |-> 0,
     invested_amount |-> 0,
     queue_status |-> "FRESH"]

\* Bet.update_market_info: the market's fields are taken from the fetched bet.
update_market_info(bet, fetched) ==
    [bet EXCEPT !.openingTimestamp = fetched.openingTimestamp,
                !.scaledLiquidityMeasure = fetched.scaledLiquidityMeasure]

\* Bet.blacklist_forever
blacklist_forever(bet) == [bet EXCEPT !.queue_status = "EXPIRED"]

\* A lookup that never finds the id.
get_bet_idx_never_found(registry, bet_id) == <<>>

\* get_bet_idx: the first position of a bet with this id, or None.
get_bet_idx(registry, bet_id) ==
    IF \E i \in DOMAIN registry : registry[i].id = bet_id
    THEN Some(CHOOSE i \in DOMAIN registry :
                  registry[i].id = bet_id /\ \A j \in 1..(i - 1) : registry[j].id # bet_id)
    ELSE Nothing

\* A loop body that puts the fetched bet in the place of the tracked one.
process_raw_bet_replacing(registry, raw_bet) ==
    LET bet == NewBet(raw_bet)
        idx == get_bet_idx(registry, bet.id)
    IN IF idx = Nothing
       THEN Append(registry, bet)
       ELSE [registry EXCEPT ![idx[1]] = bet]

\* The loop body of _process_chunk for one record.
process_raw_bet(registry, raw_bet) ==
    LET bet == NewBet(raw_bet)
        idx == get_bet_idx(registry, bet.id)
    IN IF idx = Nothing
       THEN Append(registry, bet)
       ELSE [registry EXCEPT ![idx[1]] = update_market_info(registry[idx[1]], bet)]

RECURSIVE process_raw_bets(_, _)
process_raw_bets(registry, raw_bets) ==
    IF raw_bets = <<>> THEN registry
    ELSE process_raw_bets(process_raw_bet(registry, Head(raw_bets)), Tail(raw_bets))

process_chunk(registry, chunk) ==
    IF chunk = Nothing THEN registry ELSE process_raw_bets(registry, chunk[1])

\* A requeue that does not spare the expired bets.
requeue_all_bets_unguarded(registry) ==
    [i \in DOMAIN registry |-> [registry[i] EXCEPT !.queue_status = "FRESH"]]

\* A requeue that leaves every bet with the status it had.
requeue_all_bets_skipped(registry) == registry

requeue_all_bets(registry) ==
    [i \in DOMAIN registry |->
        IF registry[i].queue_status # "EXPIRED"
        THEN [registry[i] EXCEPT !.queue_status = "FRESH"]
        ELSE registry[i]]

blacklist_expired_bets(registry, synced_time) ==
    [i \in DOMAIN registry |->
        IF synced_time >= registry[i].openingTimestamp - opening_margin
        THEN blacklist_forever(registry[i])
        ELSE registry[i]]

\* A freshness update that promotes each FRESH bet on its own.
bet_freshness_check_and_update_per_bet(registry) ==
    [i \in DOMAIN registry |->
        IF registry[i].queue_status = "FRESH"
        THEN [registry[i] EXCEPT !.queue_status = "TO_PROCESS"]
        ELSE registry[i]]

\* A freshness update that promotes the bets without looking at their freshness.
bet_freshness_check_and_update_unchecked(registry) ==
    [i \in DOMAIN registry |->
        IF registry[i].queue_status # "EXPIRED"
        THEN [registry[i] EXCEPT !.queue_status = "TO_PROCESS"]
        ELSE registry[i]]

bet_freshness_check_and_update(registry) ==
    LET fresh_statuses == {"FRESH"}
        all_bets_fresh ==
            \A i \in DOMAIN registry :
                registry[i].queue_status # "EXPIRED"
                    => registry[i].queue_status \in fresh_statuses
    IN IF all_bets_fresh
       THEN [i \in DOMAIN registry |->
                IF registry[i].queue_status # "EXPIRED"
                THEN [registry[i] EXCEPT !.queue_status = "TO_PROCESS"]
                ELSE registry[i]]
       ELSE registry

\* An end of the fetch loop that keeps what was merged whatever the fetch status.
update_bets_end_keeping(registry, status) == registry

\* The registry when the fetch loop of _update_bets has ended.
update_bets_end(registry, status) == IF status # "SUCCESS" THEN <<>> ELSE registry

UpdateInit ==
    /\ update_pc = "idle"
    /\ fetch_status = "NONE"
    /\ chunks_left = 0
    /\ update_payload = Nothing
    /\ periods = 0
    /\ update_now = 0
    /\ is_checkpoint_reached = FALSE
    /\ merged = Nothing

\* UpdateBetsBehaviour.async_act up to its first fetch.
UpdateStart ==
    \E now \in UpdateTimestamps, reached \in BOOLEAN :
        /\ update_pc = "idle"
        /\ periods < MaxPeriods
        /\ now >= synced_timestamp
        /\ synced_timestamp' = now
        /\ update_now' = now
        /\ is_checkpoint_reached' = reached
        /\ LET read == read_bets(stored_bets)
               requeued == IF reached THEN requeue_all_bets(read) ELSE read
           IN bets' = IF requeued # <<>> THEN blacklist_expired_bets(requeued, now)
                      ELSE requeued
        /\ fetch_status' = "NONE"
        /\ chunks_left' = MaxChunks
        /\ update_pc' = "fetching"
        /\ merged' = Nothing
        /\ UNCHANGED <<stored_bets, most_voted_randomness, update_payload, periods>>
        /\ UNCHANGED <<table_vars, pred_vars, sampling_vars, oracle_vars, strategy_vars>>

\* One turn of the loop of _update_bets: a fetch that returns a chunk, or fails
\* (None), and the processing of the chunk.
UpdateFetch ==
    \E chunk \in Chunks :
        /\ update_pc = "fetching"
        /\ chunks_left > 0
        /\ chunks_left' = chunks_left - 1
        /\ fetch_status' = IF chunk = Nothing THEN "FAIL" ELSE "SUCCESS"
        /\ bets' = process_chunk(bets, chunk)
        /\ merged' = IF chunk = Nothing \/ chunk = Some(<<>>) THEN merged
                      ELSE Some(chunk[1][Len(chunk[1])])
        /\ UNCHANGED <<stored_bets, synced_timestamp, most_voted_randomness, update_pc,
                       update_payload, periods, update_now, is_checkpoint_reached>>
        /\ UNCHANGED <<table_vars, pred_vars, sampling_vars, oracle_vars, strategy_vars>>

\* The loop ends; the rest of _update_bets and of async_act.
UpdateFinish ==
    /\ update_pc = "fetching"
    /\ LET updated == update_bets_end(bets, fetch_status)
           checked == IF updated # <<>> THEN bet_freshness_check_and_update(updated)
                      ELSE updated
       IN /\ bets' = checked
          /\ stored_bets' = store_bets(checked, stored_bets)
          /\ update_payload' =
                 Some([bets_hash |-> IF checked # <<>>
                                     THEN Some(hash_stored_bets(stored_bets'))
                                     ELSE Nothing])
    /\ update_pc' = "idle"
    /\ periods' = periods + 1
    /\ UNCHANGED <<synced_timestamp, most_voted_randomness, fetch_status, chunks_left,
                   update_now, is_checkpoint_reached, merged>>
    /\ UNCHANGED <<table_vars, pred_vars, sampling_vars, oracle_vars, strategy_vars>>

UpdateNext == UpdateStart \/ UpdateFetch \/ UpdateFinish

\* One turn of the loop of _process_chunk, on its own: the merge of one fetched record
\* into the registry.
MergeRecord ==
    \E raw_bet \in RawBets :
        /\ bets' = process_raw_bet(bets, raw_bet)
        /\ merged' = Some(raw_bet)
        /\ UNCHANGED <<stored_bets, synced_timestamp, most_voted_randomness>>
        /\ UNCHANGED <<update_pc, fetch_status, chunks_left, update_payload, periods,
                       update_now, is_checkpoint_reached>>
        /\ UNCHANGED <<table_vars, pred_vars, sampling_vars, oracle_vars, strategy_vars>>

MergeNext == MergeRecord

(***************************************************************************)
(* Part 5: the prediction behaviour and the Supafund predictor            *)
(***************************************************************************)
\* The market questions of the model: one that names an application, one that names
\* the empty application id, one that names none.
Questions ==
    { "Will the project with application_id 'app-1' be funded?",
      "Will the project with application_id '' be funded?",
      "Will it rain tomorrow?" }

\* re.search(r"application_id '([^']*)'", market_question): the group of the match,
\* or Nothing when the question has no match.
re_search_application_id(question) ==
    CASE question = "Will the project with application_id 'app-1' be funded?" -> Some("app-1")
      [] question = "Will the project with application_id '' be funded?" -> Some("")
      [] OTHER -> Nothing

\* os.getenv of a variable: unset, empty, or set.
EnvValues == {Nothing, Some(""), Some("value")}

Environs ==
    [NEXT_PUBLIC_SUPABASE_URL : EnvValues, SUPABASE_SERVICE_ROLE_KEY : EnvValues,
     OPENAI_API_KEY : {Nothing, Some("value")}]

\* Python's `not value` for an optional string.
not_set(value) == value = Nothing \/ value = Some("")

\* The fetch of the pipeline that raises, if any.
SupabaseFailures == {"none", "application", "project", "program"}

\* A confidence of an oracle result: a number, in hundredths, or a value that is not
\* a number.
Number(n) == [is_number |-> TRUE, value |-> n]
NotANumber == [is_number |-> FALSE, value |-> 0]
Confidences == {Number(n) : n \in {-10, 0, 50, 51, 85}} \cup {NotANumber}

\* The JSON objects the model may answer with: each key may be missing.
OracleResults ==
    [prediction : {Nothing, Some("Yes"), Some("No"), Some("ERROR")},
     confidence : {Nothing} \cup {Some(x) : x \in Confidences}]

\* What the model call may do: fail (Nothing), or answer.
LLMResponses == {Nothing} \cup {Some(r) : r \in OracleResults}

\* The result the oracle returns for an error it caught.
ERROR_result == [prediction |-> Some("ERROR"), confidence |-> Some(Number(0))]

\* LLMClient.make_prediction_request: an exception of the call is caught.
make_prediction_request(response) ==
    IF response = Nothing THEN ERROR_result ELSE response[1]

\* SupafundClient.__init__ and LLMClient.__init__, called by SupafundPredictor.__init__:
\* TRUE when one of them raises ValueError.
SupafundPredictor_init_raises(env) ==
    \/ not_set(env.NEXT_PUBLIC_SUPABASE_URL) \/ not_set(env.SUPABASE_SERVICE_ROLE_KEY)
    \/ not_set(env.OPENAI_API_KEY)

\* SupafundPredictor.run: the exception it raises, or the result it returns.
SupafundPredictor_run(question, failure, response) ==
    IF re_search_application_id(question) = Nothing
    THEN [raised |-> TRUE, result |-> Nothing]
    ELSE IF failure # "none"
         THEN [raised |-> FALSE, result |-> Some(ERROR_result)]
         ELSE [raised |-> FALSE, result |-> Some(make_prediction_request(response))]

\* run_prediction: SupafundPredictor().run(market_question)
run_prediction(question, env, failure, response) ==
    IF SupafundPredictor_init_raises(env)
    THEN [raised |-> TRUE, result |-> Nothing]
    ELSE SupafundPredictor_run(question, failure, response)

\* prediction_result.get("confidence", 0.0)
get_confidence(result) ==
    IF result.confidence = Nothing THEN Number(0) ELSE result.confidence[1]

\* A profitability test whose default confidence is 1.0.
is_profitable_default_one(result) ==
    LET confidence == IF result.confidence = Nothing THEN Number(100)
                      ELSE result.confidence[1]
    IN IF result.prediction # Some("Yes")
       THEN [raised |-> FALSE, value |-> FALSE]
       ELSE IF ~confidence.is_number
            THEN [raised |-> TRUE, value |-> FALSE]
            ELSE [raised |-> FALSE, value |-> confidence.value > 50]

\* is_profitable of PredictionBehaviour.async_act: the comparison of a confidence that
\* is not a number raises TypeError, and is made only for a "Yes".
is_profitable(result) ==
    IF result.prediction # Some("Yes")
    THEN [raised |-> FALSE, value |-> FALSE]
    ELSE IF ~get_confidence(result).is_number
         THEN [raised |-> TRUE, value |-> FALSE]
         ELSE [raised |-> FALSE, value |-> get_confidence(result).value > 50]

\* The fields the constructor of PredictionPayload takes.
PredictionPayload_fields == <<"sender", "prediction_event">>

PredictionPayload(agent_address, event) ==
    dataclass_init(PredictionPayload_fields, <<agent_address, event>>)

OracleInit ==
    /\ market_question \in Questions
    /\ environ \in Environs
    /\ supabase_failure \in SupabaseFailures
    /\ llm_response \in LLMResponses
    /\ prediction_pc = "act"
    /\ prediction_result = Nothing
    /\ prediction_payload = Nothing

\* PredictionBehaviour.async_act
PredictionAct ==
    /\ prediction_pc = "act"
    /\ LET run == run_prediction(market_question, environ, supabase_failure, llm_response)
       IN IF run.raised
          THEN /\ prediction_pc' = "raised"
               /\ UNCHANGED <<prediction_result, prediction_payload>>
          ELSE LET profitable == is_profitable(run.result[1])
                   event == IF profitable.value THEN "done" ELSE "unprofitable"
                   payload == PredictionPayload("agent_0", event)
               IN /\ prediction_result' = run.result
                  /\ IF profitable.raised \/ payload.raised
                     THEN /\ prediction_pc' = "raised"
                          /\ UNCHANGED prediction_payload
                     ELSE /\ prediction_pc' = "done"
                          /\ prediction_payload' = Some(payload.values)
    /\ UNCHANGED <<market_question, environ, supabase_failure, llm_response>>
    /\ UNCHANGED <<table_vars, pred_vars, bets_vars, sampling_vars, update_vars,
            strategy_vars>>

OracleNext == PredictionAct

(***************************************************************************)
(* The specifications                                                      *)
(***************************************************************************)
\* The parts a specification does not exercise stay in one initial state.
TableIdle ==
    /\ entry_round = initial_round_cls
    /\ current_round = initial_round_cls
    /\ prev_round = None
    /\ last_event = None
    /\ db_keys = {}
    /\ steps = 0

PredIdle == PredInit /\ consensus_threshold = 3

BetsIdle ==
    /\ bets = <<>>
    /\ stored_bets = NoFile
    /\ synced_timestamp = UNIX_DAY
    /\ most_voted_randomness = "r1"

\* The stores an update period may find: none (the first run), and registries whose
\* bets have been processed, bet on and expired before.
UpdateStores ==
    { NoFile,
      File(<< Bet("b1", 3 * UNIX_DAY + 900, 5, 1,
                  [n_bets |-> 1, invested_amount |-> 2, processed_timestamp |-> 100],
                  "TO_PROCESS") >>),
      File(<< Bet("b1", 3 * UNIX_DAY + 900, 5, 0,
                  [n_bets |-> 0, invested_amount |-> 0, processed_timestamp |-> 0],
                  "EXPIRED"),
              Bet("b2", 11 * UNIX_DAY + 1, 10, 1,
                  [n_bets |-> 1, invested_amount |-> 1, processed_timestamp |-> UNIX_DAY],
                  "FRESH") >>) }

UpdateBetsInit ==
    /\ bets = <<>>
    /\ stored_bets \in UpdateStores
    /\ synced_timestamp = UNIX_DAY
    /\ most_voted_randomness = "r1"

OracleIdle ==
    /\ market_question = "Will the project with application_id 'app-1' be funded?"
    /\ environ = [NEXT_PUBLIC_SUPABASE_URL |-> Some("url"),
                  SUPABASE_SERVICE_ROLE_KEY |-> Some("key"),
                  OPENAI_API_KEY |-> Some("key")]
    /\ supabase_failure = "none"
    /\ llm_response = Nothing
    /\ prediction_pc = "act"
    /\ prediction_result = Nothing
    /\ prediction_payload = Nothing

(***************************************************************************)
(* Part 6: the supafund_trader strategy                                    *)
(***************************************************************************)
REQUIRED_FIELDS ==
    {"bankroll", "win_probability", "confidence", "selected_type_tokens_in_pool",
     "other_tokens_in_pool", "bet_fee", "floor_balance"}

\* The amounts a call may carry as bankroll and as floor balance.
Amounts == {0, 100, 250, 1000}

\* What a call may hold under a field: no such key (Nothing), the key with None
\* (Some(Nothing)), or the key with a number.
AmountArguments == {Nothing, Some(Nothing)} \cup {Some(Some(n)) : n \in Amounts}
OtherArguments == {Nothing, Some(Nothing), Some(Some(1))}

\* The keyword arguments of a call.
StrategyKwargs ==
    { k \in [REQUIRED_FIELDS -> AmountArguments \cup OtherArguments] :
        /\ k["bankroll"] \in AmountArguments
        /\ k["floor_balance"] \in AmountArguments
        /\ \A f \in REQUIRED_FIELDS \ {"bankroll", "floor_balance"} :
              k[f] \in OtherArguments }

\* kwargs.get(field, None): Nothing stands for None.
kwargs_get(kwargs, field) == IF kwargs[field] = Nothing THEN Nothing ELSE kwargs[field][1]

\* kwargs[field] of a key that is there.
kwargs_item(kwargs, field) == kwargs[field][1][1]

\* The required fields that are absent or None.
check_missing_fields(kwargs) ==
    {field \in REQUIRED_FIELDS : kwargs_get(kwargs, field) = Nothing}

\* The placeholder prediction; probabilities and confidence in hundredths.
get_supafund_prediction(kwargs) ==
    [p_yes |-> 60, p_no |-> 40, confidence |-> 80,
     info |-> <<"Supafund prediction completed.">>, error |-> <<>>]

\* int(x * 0.01): the hundredth of x, truncated towards zero.
int_of_hundredth(x) == IF x >= 0 THEN x \div 100 ELSE -((-x) \div 100)

\* A run that sizes the bet without testing that the adjusted bankroll is positive.
run_without_positive_test(kwargs) ==
    LET missing == check_missing_fields(kwargs)
        prediction_results == get_supafund_prediction(kwargs)
        refusal == [bet_amount |-> 0, p_yes |-> 0, p_no |-> 0, confidence |-> 0]
    IN IF Cardinality(missing) > 0 THEN refusal
       ELSE IF prediction_results.error # <<>> THEN refusal
       ELSE [bet_amount |->
                 IF prediction_results.confidence > 75
                 THEN int_of_hundredth(kwargs_item(kwargs, "bankroll")
                                          - kwargs_item(kwargs, "floor_balance"))
                 ELSE 0,
             p_yes |-> prediction_results.p_yes,
             p_no |-> prediction_results.p_no,
             confidence |-> prediction_results.confidence]

\* run(**kwargs): the returned dictionary without its info and error texts.
run(kwargs) ==
    LET missing == check_missing_fields(kwargs)
        prediction_results == get_supafund_prediction(kwargs)
        refusal == [bet_amount |-> 0, p_yes |-> 0, p_no |-> 0, confidence |-> 0]
    IN IF Cardinality(missing) > 0 THEN refusal
       ELSE IF prediction_results.error # <<>> THEN refusal
       ELSE LET bankroll_adj == kwargs_item(kwargs, "bankroll")
                                   - kwargs_item(kwargs, "floor_balance")
            IN [bet_amount |->
                    IF prediction_results.confidence > 75
                    THEN IF kwargs["bankroll"] # Nothing /\ kwargs["floor_balance"] # Nothing
                         THEN IF bankroll_adj > 0 THEN int_of_hundredth(bankroll_adj) ELSE 0
                         ELSE 0
                    ELSE 0,
                p_yes |-> prediction_results.p_yes,
                p_no |-> prediction_results.p_no,
                confidence |-> prediction_results.confidence]

\* The strategy has not been called.
StrategyInit ==
    /\ strategy_kwargs \in StrategyKwargs
    /\ strategy_result = Nothing

StrategyIdle ==
    /\ strategy_kwargs = [f \in REQUIRED_FIELDS |-> Nothing]
    /\ strategy_result = Nothing

\* The agent calls the strategy.
StrategyRun ==
    /\ strategy_result = Nothing
    /\ strategy_result' = Some(run(strategy_kwargs))
    /\ UNCHANGED strategy_kwargs
    /\ UNCHANGED <<table_vars, pred_vars, bets_vars, sampling_vars, update_vars,
                   oracle_vars>>

StrategyNext == StrategyRun

InitStrategy ==
    TableIdle /\ PredIdle /\ BetsIdle /\ SamplingInit /\ UpdateInit /\ OracleIdle
        /\ StrategyInit

SpecStrategy ==
    /\ InitStrategy
    /\ [][StrategyNext]_vars

InitOracle ==
    TableIdle /\ PredIdle /\ BetsIdle /\ SamplingInit /\ UpdateInit /\ OracleInit
        /\ StrategyIdle

SpecOracle ==
    /\ InitOracle
    /\ [][OracleNext]_vars

\* The registries a merge may start from: what read_bets finds in the store.
MergeBetsInit ==
    /\ stored_bets \in {NoFile} \cup {File(r) : r \in StoredRegistries}
    /\ bets = read_bets(stored_bets)
    /\ synced_timestamp = UNIX_DAY
    /\ most_voted_randomness = "r1"

InitMerge == TableIdle /\ PredIdle /\ MergeBetsInit /\ SamplingInit /\ UpdateInit /\ OracleIdle
        /\ StrategyIdle

SpecMerge ==
    /\ InitMerge
    /\ [][MergeNext]_vars

InitTable == TableInit /\ PredIdle /\ BetsIdle /\ SamplingInit /\ UpdateInit /\ OracleIdle
        /\ StrategyIdle

SpecTable ==
    /\ InitTable
    /\ [][TableNext]_vars

\* The runs of the table of any length from the initial round, in which no round ends
\* with NO_MAJORITY or a timeout forever: a round that can complete does.
InitTableLive == TableIdle /\ PredIdle /\ BetsIdle /\ SamplingInit /\ UpdateInit /\ OracleIdle
        /\ StrategyIdle

SpecTableLive ==
    /\ InitTableLive
    /\ [][TableLiveNext]_vars
    /\ WF_vars(CompleteRound)

InitPrediction == TableIdle /\ PredInit /\ BetsIdle /\ SamplingInit /\ UpdateInit /\ OracleIdle
        /\ StrategyIdle

SpecPrediction ==
    /\ InitPrediction
    /\ [][PredNext]_vars

InitSampling == TableIdle /\ PredIdle /\ BetsInit /\ SamplingInit /\ UpdateInit /\ OracleIdle
        /\ StrategyIdle

SpecSampling ==
    /\ InitSampling
    /\ [][SamplingNext]_vars

InitUpdate == TableIdle /\ PredIdle /\ UpdateBetsInit /\ SamplingInit /\ UpdateInit /\ OracleIdle
        /\ StrategyIdle

SpecUpdate ==
    /\ InitUpdate
    /\ [][UpdateNext]_vars

(***************************************************************************)
(* The claims                                                              *)
(***************************************************************************)
\* The status of the bet with the given id in a registry, "ABSENT" if it has none.
StatusIn(registry, id) ==
    IF \E i \in DOMAIN registry : registry[i].id = id
    THEN registry[get_bet_idx(registry, id)[1]].queue_status
    ELSE "ABSENT"

\* The rearrangements of a sequence.
Rearrangements(seq) ==
    { [i \in DOMAIN seq |-> seq[p[i]]] : p \in Permutations(DOMAIN seq) }

\* C1: an agent about to sample computes the same result (the same index, or none) as
\* an agent that holds the same registry, seed, timestamp and parameters and whose
\* liquidity cache is empty because it has just started.
C1_SameResultWhateverCache ==
    sampling_pc = "act" =>
        sample(bets, synced_timestamp, should_rebet, liquidity_cache).idx
            = sample(bets, synced_timestamp, should_rebet, EmptyCache).idx

\* C2: a step changes the synchronized data only if the threshold is reached on the
\* collection the step starts from: no submission, timeout or end_block made while
\* the threshold is not reached changes any key.
C2_MutationOnlyAtThreshold ==
    [][synchronized_data' # synchronized_data
          => threshold_reached(collection, consensus_threshold)]_vars

\* C2, witness: blocks have ended and one of them, at the threshold, wrote the keys.
C2_Witness ==
    /\ blocks > 0
    /\ synchronized_data.most_voted_prediction # None
    /\ synchronized_data.participant_to_prediction # Nothing

\* C3: once end_block has agreed on a prediction_event value, the engine has left
\* PredictionRound for the round the table names for it: BetPlacementRound for
\* 'done', BlacklistingRound for 'unprofitable'.
C3_AgreedValueLeavesRound ==
    /\ synchronized_data.most_voted_prediction = "done"
           => pred_round = "BetPlacementRound"
    /\ synchronized_data.most_voted_prediction = "unprofitable"
           => pred_round = "BlacklistingRound"

\* C4: the most voted value is the same for every rearrangement of the submissions.
C4_OrderIndependent ==
    threshold_reached(collection, consensus_threshold) =>
        \A other \in Rearrangements(collection) :
            prediction_event(other, consensus_threshold)
                = prediction_event(collection, consensus_threshold)

\* C5: SamplingRound goes to ImpossibleRound on FETCH_ERROR, to
\* FinishedWithoutDecisionRound on NONE and to SubscriptionRound on DONE, and the
\* first two are final rounds that no transition leaves.
C5_SamplingTransitions ==
    /\ prev_round = "SamplingRound" /\ last_event = "FETCH_ERROR"
           => current_round = "ImpossibleRound"
    /\ prev_round = "SamplingRound" /\ last_event = "NONE"
           => current_round = "FinishedWithoutDecisionRound"
    /\ prev_round = "SamplingRound" /\ last_event = "DONE"
           => current_round = "SubscriptionRound"
    /\ current_round = "SamplingRound"
           => \A e \in {"FETCH_ERROR", "NONE", "DONE"} :
                  \E t \in transition_function : t[1] = current_round /\ t[2] = e
    /\ current_round \in {"ImpossibleRound", "FinishedWithoutDecisionRound"}
           => /\ current_round \in final_states
              /\ \A t \in transition_function : t[1] # current_round

\* C5, witness: the sampling found no bet and the app ended without a decision.
C5_Witness ==
    /\ prev_round = "SamplingRound"
    /\ last_event = "NONE"
    /\ current_round = "FinishedWithoutDecisionRound"

C8_NeverSamplesExpired ==
    \A i \in DOMAIN sampling_history :
        LET idx == sampling_history[i].index
        IN idx # Nothing
               => sampling_history[i].registry[idx[1] + 1].queue_status # "EXPIRED"

\* C9: two samplings with the same registry, timestamp and randomness returned the
\* same index.
C9_SameIndexTwice ==
    \A i, j \in DOMAIN sampling_history :
        ( /\ sampling_history[i].registry = sampling_history[j].registry
          /\ sampling_history[i].now = sampling_history[j].now
          /\ sampling_history[i].randomness = sampling_history[j].randomness )
            => sampling_history[i].index = sampling_history[j].index

\* C10: in a run entered at the initial round with an empty store, the active round
\* has all its declared pre-condition keys.
C10_PreConditionsHold ==
    entry_round = initial_round_cls => PreConditions(current_round) \subseteq db_keys

\* C10, witness: a round with pre-condition keys was entered again by its timeout.
C10_Witness ==
    /\ entry_round = initial_round_cls
    /\ current_round = "BetPlacementRound"
    /\ prev_round = "BetPlacementRound"
    /\ last_event = "ROUND_TIMEOUT"
    /\ PreConditions(current_round) # {}
\* C11: once async_act of the sampling behaviour has run, a payload is submitted that
\* carries the hash of the stored bets and the sampled index, and the hash is absent
\* exactly when the index is.
C11_PayloadCarriesHashAndIndex ==
    sampling_pc \in {"done", "raised"} =>
        /\ sampling_payload # Nothing
        /\ {"bets_hash", "index"} \subseteq payload_fields(sampling_payload)
        /\ LET field(name) ==
                   sampling_payload[1][CHOOSE k \in DOMAIN SamplingPayload_fields :
                                           SamplingPayload_fields[k] = name]
           IN field("bets_hash") = Nothing <=> field("index") = Nothing
\* The step in which an update period with a successful fetch ends: the registry
\* before it is what _bet_freshness_check_and_update starts from, the registry
\* after it is what it leaves.
FreshnessStep ==
    /\ update_pc = "fetching"
    /\ update_pc' = "idle"
    /\ fetch_status = "SUCCESS"
    /\ bets # <<>>

\* Every bet of the registry that is not EXPIRED is FRESH.
AllNonExpiredFresh(registry) ==
    \A i \in DOMAIN registry : registry[i].queue_status \in {"EXPIRED", "FRESH"}

\* C12: the freshness update leaves every bet but its status as it was; when every
\* non-EXPIRED bet is FRESH it makes all of them TO_PROCESS in the one step, otherwise
\* it changes no status; an EXPIRED bet stays EXPIRED.
C12_FreshnessAllOrNothing ==
    [][FreshnessStep =>
          /\ DOMAIN bets' = DOMAIN bets
          /\ \A i \in DOMAIN bets :
                /\ [bets'[i] EXCEPT !.queue_status = bets[i].queue_status] = bets[i]
                /\ bets'[i].queue_status =
                       IF AllNonExpiredFresh(bets) /\ bets[i].queue_status # "EXPIRED"
                       THEN "TO_PROCESS"
                       ELSE bets[i].queue_status]_vars

\* C12, witness: a period has ended with a successful fetch, and a bet that the fetch
\* added (FRESH) is TO_PROCESS beside an EXPIRED one.
C12_Witness ==
    /\ update_pc = "idle"
    /\ periods > 0
    /\ fetch_status = "SUCCESS"
    /\ \E i \in DOMAIN bets : bets[i].queue_status = "EXPIRED"
    /\ \E i \in DOMAIN bets :
          /\ bets[i].queue_status = "TO_PROCESS"
          /\ stored_bets # NoFile
          /\ StatusIn(read_bets(stored_bets), bets[i].id) = "TO_PROCESS"
          /\ bets[i].n_bets = 0 /\ bets[i].processed_timestamp = 0

\* C13, as claimed: a bet is promoted to TO_PROCESS only in a step that starts with no
\* non-EXPIRED bet FRESH.
C13_PromotesWhenNoneFresh ==
    [][(FreshnessStep /\ \E i \in DOMAIN bets :
                            /\ bets[i].queue_status # "TO_PROCESS"
                            /\ bets'[i].queue_status = "TO_PROCESS")
          => \A i \in DOMAIN bets : bets[i].queue_status # "FRESH"]_vars

\* C13, amended: a bet is promoted to TO_PROCESS only in a step that starts with every
\* non-EXPIRED bet FRESH; when a non-EXPIRED bet is not FRESH, no status changes.
C13_PromotesWhenAllFresh ==
    [][FreshnessStep =>
          /\ (\E i \in DOMAIN bets :
                 /\ bets[i].queue_status # "TO_PROCESS"
                 /\ bets'[i].queue_status = "TO_PROCESS")
                => AllNonExpiredFresh(bets)
          /\ ~AllNonExpiredFresh(bets)
                => \A i \in DOMAIN bets : bets'[i].queue_status = bets[i].queue_status]_vars

\* C13, witness: a period has ended with a successful fetch and left a FRESH bet
\* beside a TO_PROCESS one: the bet that was not FRESH blocked the promotion.
C13_Witness ==
    /\ update_pc = "idle"
    /\ periods > 0
    /\ fetch_status = "SUCCESS"
    /\ \E i \in DOMAIN bets : bets[i].queue_status = "FRESH"
    /\ \E i \in DOMAIN bets : bets[i].queue_status = "TO_PROCESS"
\* A sampling has just been recorded: the behaviour has left async_act.
Sampled == sampling_pc \in {"done", "raised"}

\* The sampling that has just been recorded. The history is only appended to, so
\* every recorded sampling is the last one in the state its async_act leaves.
LastSampling == sampling_history[Len(sampling_history)]

\* The positions of the bets that were eligible in a recorded sampling.
Available(h) ==
    {i \in DOMAIN h.registry : processable_bet(h.registry[i], h.now, h.rebet, h.cache)}

\* A recorded sampling in which exactly two bets were eligible, at positions i and j.
TwoEligible(h, i, j) == i # j /\ Available(h) = {i, j}

\* A recorded sampling with two eligible bets that were never bet on, the one at
\* position i with liquidity 10 and the one at position j with liquidity 5.
NeverBetTenAndFive(h, i, j) ==
    /\ TwoEligible(h, i, j)
    /\ h.registry[i].n_bets = 0 /\ h.registry[j].n_bets = 0
    /\ h.registry[i].scaledLiquidityMeasure = 10
    /\ h.registry[j].scaledLiquidityMeasure = 5

\* C14, as claimed: of two eligible bets that were never bet on, with liquidities 10
\* and 5, the sampling returns the one with liquidity 10 whatever their other fields.
C14_PicksLiquidityTen ==
    \A k \in DOMAIN sampling_history :
        LET h == sampling_history[k] IN
        \A i, j \in DOMAIN h.registry :
            NeverBetTenAndFive(h, i, j) => h.index = Some(i - 1)

\* C14, amended: of two eligible bets that were never bet on nor processed
\* (processed_timestamp = 0), with liquidities 10 and 5, the sampling returns the one
\* with liquidity 10 whatever their queue_no and openingTimestamp.
C14_PicksLiquidityTenOfNewBets ==
    Sampled =>
        LET h == LastSampling IN
        \A i, j \in DOMAIN h.registry :
            ( /\ NeverBetTenAndFive(h, i, j)
              /\ h.registry[i].processed_timestamp = 0
              /\ h.registry[j].processed_timestamp = 0 )
                => h.index = Some(i - 1)

\* C14, witness: the bet with liquidity 10 was returned though it comes second, opens
\* earlier and has the greater queue_no.
C14_Witness ==
    \E k \in DOMAIN sampling_history :
        LET h == sampling_history[k] IN
        /\ NeverBetTenAndFive(h, 2, 1)
        /\ h.registry[1].processed_timestamp = 0 /\ h.registry[2].processed_timestamp = 0
        /\ h.registry[2].queue_no > h.registry[1].queue_no
        /\ h.registry[2].openingTimestamp < h.registry[1].openingTimestamp
        /\ h.index = Some(1)

\* A recorded sampling with two eligible bets that were bet on, with the same
\* invested_amount, the one at position i processed before the one at position j.
BetOnEqualInvested(h, i, j) ==
    /\ TwoEligible(h, i, j)
    /\ h.registry[i].n_bets > 0 /\ h.registry[j].n_bets > 0
    /\ h.registry[i].invested_amount = h.registry[j].invested_amount
    /\ h.registry[i].processed_timestamp < h.registry[j].processed_timestamp

\* C15, as claimed: of two eligible bets that were bet on, with equal invested_amount,
\* the sampling returns the one with the smaller processed_timestamp whatever their
\* other fields.
C15_PicksEarlierProcessed ==
    \A k \in DOMAIN sampling_history :
        LET h == sampling_history[k] IN
        \A i, j \in DOMAIN h.registry :
            BetOnEqualInvested(h, i, j) => h.index = Some(i - 1)

\* C15, amended: of two eligible bets that were bet on, with equal invested_amount and
\* equal queue_no, the sampling picks the one with the smaller processed_timestamp
\* whatever their liquidity and openingTimestamp, and returns it unless its liquidity
\* is 0, in which case it returns none.
C15_PicksEarlierProcessedOfSameQueue ==
    Sampled =>
        LET h == LastSampling IN
        \A i, j \in DOMAIN h.registry :
            (BetOnEqualInvested(h, i, j) /\ h.registry[i].queue_no = h.registry[j].queue_no)
                => h.index = IF h.registry[i].scaledLiquidityMeasure = 0
                             THEN Nothing ELSE Some(i - 1)

\* C15, witness: the bet processed earlier was returned though it comes second and
\* has the smaller liquidity.
C15_Witness ==
    \E k \in DOMAIN sampling_history :
        LET h == sampling_history[k] IN
        /\ BetOnEqualInvested(h, 2, 1)
        /\ h.registry[1].queue_no = h.registry[2].queue_no
        /\ h.registry[2].scaledLiquidityMeasure = 5
        /\ h.registry[1].scaledLiquidityMeasure = 10
        /\ h.index = Some(1)
\* The market-facing fields of a bet are those of the fetched record.
MarketFieldsOf(bet, record) ==
    /\ bet.id = record.id
    /\ bet.openingTimestamp = record.openingTimestamp
    /\ bet.scaledLiquidityMeasure = record.scaledLiquidityMeasure

\* The bookkeeping of two bets is the same.
SameBookkeeping(a, b) ==
    /\ a.queue_no = b.queue_no
    /\ a.processed_timestamp = b.processed_timestamp
    /\ a.n_bets = b.n_bets
    /\ a.invested_amount = b.invested_amount
    /\ a.queue_status = b.queue_status

\* C16: the merge of a record with a tracked id gives the tracked bet the record's
\* market fields and keeps its bookkeeping; the merge of a record with an untracked id
\* appends one bet with the record's market fields and the default bookkeeping; every
\* other bet is left as it was.
C16_MergeFrame ==
    [][merged' # Nothing =>
          LET record == merged'[1]
              idx == get_bet_idx(bets, record.id)
          IN IF idx # Nothing
             THEN /\ DOMAIN bets' = DOMAIN bets
                  /\ MarketFieldsOf(bets'[idx[1]], record)
                  /\ SameBookkeeping(bets'[idx[1]], bets[idx[1]])
                  /\ \A i \in DOMAIN bets : i # idx[1] => bets'[i] = bets[i]
             ELSE /\ Len(bets') = Len(bets) + 1
                  /\ MarketFieldsOf(bets'[Len(bets')], record)
                  /\ bets'[Len(bets')].queue_no = 0
                  /\ bets'[Len(bets')].processed_timestamp = 0
                  /\ bets'[Len(bets')].n_bets = 0
                  /\ bets'[Len(bets')].invested_amount = 0
                  /\ bets'[Len(bets')].queue_status = "FRESH"
                  /\ \A i \in DOMAIN bets : bets'[i] = bets[i]]_vars

\* C16, witness: the store held one bet, bet on and EXPIRED; a record with its id was
\* merged and changed its liquidity and opening time only, and a record with another
\* id was merged and added a FRESH bet.
C16_Witness ==
    /\ merged # Nothing
    /\ stored_bets # NoFile
    /\ Len(read_bets(stored_bets)) = 1
    /\ Len(bets) = 2
    /\ LET before == read_bets(stored_bets)[1] IN
          /\ before.n_bets > 0 /\ before.queue_status = "EXPIRED"
          /\ bets[1].scaledLiquidityMeasure # before.scaledLiquidityMeasure
          /\ bets[1].openingTimestamp # before.openingTimestamp
          /\ SameBookkeeping(bets[1], before)
    /\ bets[2].queue_status = "FRESH"
\* C17: when an update period has ended with a fetch status other than SUCCESS, the
\* registry is empty and the payload carries no hash, whatever was merged before.
C17_FailedFetchClearsRegistry ==
    (update_pc = "idle" /\ periods > 0 /\ fetch_status # "SUCCESS") =>
        /\ bets = <<>>
        /\ update_payload = Some([bets_hash |-> Nothing])

\* C17, witness: a period has ended whose fetches merged a record and then failed, and
\* the registry is empty.
C17_Witness ==
    /\ update_pc = "idle"
    /\ periods > 0
    /\ fetch_status = "FAIL"
    /\ merged # Nothing
    /\ bets = <<>>
\* The event of the payload the prediction behaviour submitted.
SubmittedEvent == prediction_payload[1][2]

\* C18: the prediction behaviour submits 'done' only for a result with prediction
\* 'Yes' and a confidence above 0.5, and always submits 'unprofitable' for a result
\* with prediction 'ERROR', with a confidence of 0 or less, or with none.
C18_DoneOnlyForConfidentYes ==
    prediction_result # Nothing =>
        LET result == prediction_result[1] IN
        /\ (prediction_payload # Nothing /\ SubmittedEvent = "done")
               => /\ result.prediction = Some("Yes")
                  /\ result.confidence # Nothing
                  /\ result.confidence[1].is_number
                  /\ result.confidence[1].value > 50
        /\ ( \/ result.prediction = Some("ERROR")
             \/ result.confidence = Nothing
             \/ (result.confidence[1].is_number /\ result.confidence[1].value <= 0) )
               => /\ prediction_pc = "done"
                  /\ prediction_payload # Nothing
                  /\ SubmittedEvent = "unprofitable"

\* C18, witness: the model answered 'Yes' with no confidence, and the behaviour
\* submitted 'unprofitable'.
C18_Witness ==
    /\ prediction_pc = "done"
    /\ prediction_payload # Nothing
    /\ prediction_result = Some([prediction |-> Some("Yes"), confidence |-> Nothing])
    /\ SubmittedEvent = "unprofitable"

\* An oracle failure: no application id in the question, credentials missing, a data
\* fetch that fails, a model call that fails.
OracleFailure ==
    \/ re_search_application_id(market_question) = Nothing
    \/ SupafundPredictor_init_raises(environ)
    \/ supabase_failure # "none"
    \/ llm_response = Nothing

\* C19: when the oracle fails, the prediction behaviour ends with an 'unprofitable'
\* payload submitted, never with an exception.
C19_OracleFailureIsUnprofitable ==
    (prediction_pc # "act" /\ OracleFailure) =>
        /\ prediction_pc = "done"
        /\ prediction_payload # Nothing
        /\ SubmittedEvent = "unprofitable"
\* C20: a round is entered again by its own event only on NO_MAJORITY and on a timeout
\* event; every other event, the error events FETCH_ERROR, SUBSCRIPTION_ERROR and
\* CALC_BUY_AMOUNT_FAILED in particular, leads to a round different from the one it
\* ended.
C20_SelfTransitionsOnlyOnNoMajorityAndTimeout ==
    (last_event # None /\ current_round = prev_round)
        => last_event \in {"NO_MAJORITY"} \cup TimeoutEvents
\* C21: every round that is not final has a transition on a timeout event
\* (ROUND_TIMEOUT or REDEEM_ROUND_TIMEOUT), so the active round can always end by
\* timing out.
C21_EveryRoundHasTimeout ==
    current_round \notin final_states
        => \E t \in transition_function :
               t[1] = current_round /\ t[2] \in TimeoutEvents
\* C22: store_bets followed by read_bets yields the registry that was stored, whatever
\* its size (the empty one included) and whatever the file held before: when an update
\* period has ended with store_bets, reading the file gives the registry of the
\* behaviour, in the same order and with the same fields.
C22_StoreThenReadRoundTrips ==
    (update_pc = "idle" /\ periods > 0) => read_bets(stored_bets) = bets
\* C23: the index a sampling returned is an index of the full registry, and the bet
\* there is in both time windows at the sampling timestamp: it opens at most
\* sample_bets_closing_days days after now, and now is before its opening time less
\* the opening margin and the safe voting range.
C23_SampledBetWithinWindows ==
    Sampled =>
        LET h == LastSampling IN
        h.index # Nothing
            => /\ h.index[1] \in 0..(Len(h.registry) - 1)
               /\ LET bet == h.registry[h.index[1] + 1] IN
                  /\ bet.openingTimestamp <= h.now + sample_bets_closing_days * 86400
                  /\ h.now < bet.openingTimestamp - opening_margin - safe_voting_range

\* C23, witness: a sampling returned the second bet of a registry whose first bet,
\* never bet on and not in the cache, is past its safe voting range.
C23_Witness ==
    \E k \in DOMAIN sampling_history :
        LET h == sampling_history[k] IN
        /\ Len(h.registry) = 2
        /\ h.index = Some(1)
        /\ ~h.rebet
        /\ h.registry[1].n_bets = 0
        /\ h.cache[h.registry[1].id] = Nothing
        /\ h.now >= h.registry[1].openingTimestamp - opening_margin - safe_voting_range
\* C24: after every setup of the sampling behaviour, whatever the earlier setups
\* computed: should_rebet is false if no tracked bet has n_bets > 0, and it is true
\* only if some tracked bet has n_bets > 0 and the seeded draw is at most rebet_chance.
C24_RebetOnlyAfterABet ==
    sampling_pc = "act" =>
        LET has_bet_in_the_past == \E i \in DOMAIN bets : bets[i].n_bets > 0 IN
        /\ ~has_bet_in_the_past => ~should_rebet
        /\ should_rebet
               => has_bet_in_the_past /\ random_random(most_voted_randomness) <= rebet_chance

\* C24, witness: the setup of the first sampling enabled the rebetting, and the setup
\* of the second one, which read no bet that was bet on, left it disabled.
C24_Witness ==
    /\ sampling_pc = "act"
    /\ Len(sampling_history) = 1
    /\ sampling_history[1].rebet
    /\ \A i \in DOMAIN bets : bets[i].n_bets = 0
    /\ ~should_rebet
\* C25: the bet a sampling returned passes the test of the rebet mode: with
\* should_rebet false it has n_bets = 0 and a liquidity that differs from its entry of
\* the liquidity cache, or no entry; with should_rebet true it has n_bets > 0 and
\* now >= processed_timestamp + ((openingTimestamp - now) div 604800) + 86400.
C25_SampledBetPassesRebetTest ==
    Sampled =>
        LET h == LastSampling IN
        h.index # Nothing
            => LET bet == h.registry[h.index[1] + 1] IN
               /\ ~h.rebet
                      => /\ bet.n_bets = 0
                         /\ h.cache[bet.id] # Some(bet.scaledLiquidityMeasure)
               /\ h.rebet
                      => /\ bet.n_bets > 0
                         /\ h.now >= bet.processed_timestamp
                                       + ((bet.openingTimestamp - h.now) \div 604800)
                                       + 86400

\* C25, witness: a sampling in rebet mode returned the second bet of a registry whose
\* first bet, bet on and in both time windows, was processed too short a time before.
C25_Witness ==
    \E k \in DOMAIN sampling_history :
        LET h == sampling_history[k] IN
        /\ h.rebet
        /\ Len(h.registry) = 2
        /\ h.index = Some(1)
        /\ h.registry[1].n_bets > 0
        /\ within_ranges(h.registry[1], h.now)
        /\ h.now < h.registry[1].processed_timestamp
                      + ((h.registry[1].openingTimestamp - h.now) \div 604800) + 86400
\* The eligible bets of a recorded sampling that were never processed.
NewAvailable(h) == {i \in Available(h) : h.registry[i].processed_timestamp = 0}

\* The position of the candidate that the ordering chose in a recorded sampling with
\* eligible bets.
Candidate(h) == sampled_bet_idx(h.registry, Available(h))

\* What a recorded sampling returned is its candidate, or none when the candidate has
\* no liquidity.
ReturnsCandidate(h) ==
    h.index = IF h.registry[Candidate(h)].scaledLiquidityMeasure = 0
              THEN Nothing ELSE Some(Candidate(h) - 1)

\* C26: when some eligible bet has processed_timestamp = 0, the candidate is an eligible
\* bet with processed_timestamp = 0 whose (scaledLiquidityMeasure, openingTimestamp) is
\* greatest, in lexicographic order, among the eligible never-processed bets, even
\* when an eligible bet has a lower queue_no.
C26_NewBetsFirst ==
    Sampled =>
        LET h == LastSampling IN
        NewAvailable(h) # {}
            => /\ ReturnsCandidate(h)
               /\ Candidate(h) \in NewAvailable(h)
               /\ LET c == h.registry[Candidate(h)] IN
                  \A j \in NewAvailable(h) :
                      \/ h.registry[j].scaledLiquidityMeasure < c.scaledLiquidityMeasure
                      \/ /\ h.registry[j].scaledLiquidityMeasure = c.scaledLiquidityMeasure
                         /\ h.registry[j].openingTimestamp <= c.openingTimestamp

\* C26, witness: the sampling returned a never-processed bet of queue 1 though a
\* processed bet of queue 0, with more liquidity, was eligible.
C26_Witness ==
    \E k \in DOMAIN sampling_history :
        LET h == sampling_history[k] IN
        /\ Available(h) = {1, 2}
        /\ h.registry[1].processed_timestamp > 0 /\ h.registry[1].queue_no = 0
        /\ h.registry[1].scaledLiquidityMeasure = 10
        /\ h.registry[2].processed_timestamp = 0 /\ h.registry[2].queue_no = 1
        /\ h.registry[2].scaledLiquidityMeasure = 5
        /\ h.index = Some(1)
\* The eligible bets of a recorded sampling whose queue_no is the least.
LeastQueueAvailable(h) ==
    {i \in Available(h) : \A j \in Available(h) : h.registry[i].queue_no <= h.registry[j].queue_no}

\* C27: when no eligible bet has processed_timestamp = 0, the candidate has the least
\* queue_no of the eligible bets, and among the eligible bets of that queue_no its
\* (invested_amount, -processed_timestamp, scaledLiquidityMeasure, openingTimestamp) is
\* greatest in lexicographic order.
C27_PriorityBetsOrdered ==
    Sampled =>
        LET h == LastSampling IN
        (Available(h) # {} /\ NewAvailable(h) = {})
            => /\ ReturnsCandidate(h)
               /\ Candidate(h) \in LeastQueueAvailable(h)
               /\ LET c == h.registry[Candidate(h)] IN
                  \A j \in LeastQueueAvailable(h) :
                      LET b == h.registry[j] IN
                      ~TupleLess(<<c.invested_amount, -c.processed_timestamp,
                                   c.scaledLiquidityMeasure, c.openingTimestamp>>,
                                 <<b.invested_amount, -b.processed_timestamp,
                                   b.scaledLiquidityMeasure, b.openingTimestamp>>)

\* C27, witness: the sampling returned the bet of queue 0 though the other eligible
\* bet, of queue 1, comes first and has the greater invested_amount.
C27_Witness ==
    \E k \in DOMAIN sampling_history :
        LET h == sampling_history[k] IN
        /\ Available(h) = {1, 2}
        /\ NewAvailable(h) = {}
        /\ h.registry[1].queue_no = 1 /\ h.registry[1].invested_amount = 2
        /\ h.registry[2].queue_no = 0 /\ h.registry[2].invested_amount = 1
        /\ h.index = Some(1)
\* C28: a sampling never returns a bet whose scaledLiquidityMeasure is 0, and when the
\* candidate has liquidity 0 it returns none, whatever the other eligible bets.
C28_NoZeroLiquidity ==
    Sampled =>
        LET h == LastSampling IN
        /\ h.index # Nothing => h.registry[h.index[1] + 1].scaledLiquidityMeasure # 0
        /\ (Available(h) # {} /\ h.registry[Candidate(h)].scaledLiquidityMeasure = 0)
               => h.index = Nothing

\* C28, witness: the sampling returned none for a candidate of liquidity 0 though the
\* other eligible bet has liquidity 10.
C28_Witness ==
    \E k \in DOMAIN sampling_history :
        LET h == sampling_history[k] IN
        /\ Available(h) = {1, 2}
        /\ Candidate(h) = 1
        /\ h.registry[1].scaledLiquidityMeasure = 0
        /\ h.registry[2].scaledLiquidityMeasure = 10
        /\ h.index = Nothing

NoResample(history) ==
    \A i, j \in DOMAIN history :
        (i < j /\ history[i].restarts = history[j].restarts
               /\ history[i].index # Nothing /\ ~history[i].rebet)
            => LET b == history[i].registry[history[i].index[1] + 1] IN
               \A q \in DOMAIN history[j].registry :
                   LET later == history[j].registry[q] IN
                   ( /\ later.id = b.id
                     /\ later.scaledLiquidityMeasure = b.scaledLiquidityMeasure
                     /\ later.n_bets = 0 )
                       => history[j].index # Some(q - 1)

\* C30: after a sampling has returned bet b in non-rebet mode, no later sampling, in
\* either rebet mode, returns b while its liquidity is the cached one and its n_bets is
\* 0; and no entry of the liquidity cache is removed while the agent runs.
C30_SampledOnceWhileUnchanged ==
    [][/\ NoResample(sampling_history')
       /\ restarts' = restarts
              => \A id \in DOMAIN liquidity_cache :
                     liquidity_cache[id] # Nothing => liquidity_cache'[id] # Nothing]_vars

\* C30, witness: the first sampling returned the first bet in non-rebet mode, and the
\* second one, in rebet mode in the same run of the agent, returned the other bet.
C30_Witness ==
    /\ Len(sampling_history) = 2
    /\ sampling_history[1].restarts = sampling_history[2].restarts
    /\ ~sampling_history[1].rebet /\ sampling_history[1].index = Some(0)
    /\ sampling_history[2].rebet /\ sampling_history[2].index = Some(1)
    /\ sampling_history[2].registry = sampling_history[1].registry
    /\ within_ranges(sampling_history[2].registry[1], sampling_history[2].now)
\* C31: PredictionRound is never entered directly from SamplingRound: the subscription
\* or claim stage is visited between the two.
C31_PredictionNotEnteredFromSampling ==
    ~(prev_round = "SamplingRound" /\ current_round = "PredictionRound")
\* C32: when no round ends with NO_MAJORITY or a timeout forever, every run from
\* CheckBenchmarkingModeRound reaches a final round and takes no further transition.
C32_EventuallyFinal == <>[](current_round \in final_states)
\* C33: every round of the table that is not final has a declared set of pre-condition
\* keys, and every round, final or not, has a declared set of post-condition keys.
C33_ConditionsDeclared ==
    /\ current_round \notin final_states => current_round \in DOMAIN db_pre_conditions
    /\ current_round \in DOMAIN db_post_conditions
\* The update period that has just ended had its checkpoint reached and its fetch
\* succeeded.
CheckpointPeriodEnded ==
    /\ update_pc = "idle"
    /\ periods > 0
    /\ is_checkpoint_reached
    /\ fetch_status = "SUCCESS"

\* C34: at the end of an update period in which the checkpoint was reached and the fetch
\* succeeded, no tracked bet is FRESH: every bet that is not EXPIRED, the bets inserted
\* in that period included, is TO_PROCESS, in the registry and in the store written from it.
C34_NoFreshAfterCheckpointPeriod ==
    CheckpointPeriodEnded =>
        /\ \A i \in DOMAIN bets : bets[i].queue_status \in {"EXPIRED", "TO_PROCESS"}
        /\ bets # <<>> => read_bets(stored_bets) = bets

\* Such a period ended with a bet that was bet on before and a bet inserted in the period,
\* both TO_PROCESS.
C34_Witness ==
    /\ CheckpointPeriodEnded
    /\ merged # Nothing
    /\ \E i, j \in DOMAIN bets :
          /\ bets[i].n_bets > 0
          /\ bets[i].queue_status = "TO_PROCESS"
          /\ bets[j].id = merged[1].id
          /\ bets[j].n_bets = 0
          /\ bets[j].queue_no = 0
          /\ bets[j].queue_status = "TO_PROCESS"
\* The step that ends an update period whose fetch has not succeeded.
FailedPeriodEnds ==
    /\ update_pc = "fetching"
    /\ update_pc' = "idle"
    /\ fetch_status # "SUCCESS"

\* C35: in an update period whose fetch fails the bets file is left as it was before the
\* period: no step of the period up to its end writes it, the end of the period does not
\* write the cleared registry (nor the requeued and expired bets it held before), and the
\* payload it submits has no bets hash.
C35_FailedPeriodKeepsStore ==
    [][/\ update_pc' = "fetching" => stored_bets' = stored_bets
       /\ FailedPeriodEnds =>
             /\ stored_bets' = stored_bets
             /\ bets' = <<>>
             /\ update_payload' = Some([bets_hash |-> Nothing])]_vars

\* A period whose fetch failed has ended, after its requeue and its blacklisting had both
\* changed the bets read from a store that is still there.
C35_Witness ==
    /\ update_pc = "idle"
    /\ periods > 0
    /\ fetch_status = "FAIL"
    /\ is_checkpoint_reached
    /\ stored_bets # NoFile
    /\ LET read == read_bets(stored_bets)
       IN /\ requeue_all_bets(read) # read
          /\ blacklist_expired_bets(requeue_all_bets(read), update_now)
                # requeue_all_bets(read)
    /\ bets = <<>>
    /\ update_payload = Some([bets_hash |-> Nothing])
\* The ids of a registry are pairwise distinct.
DistinctIds(registry) ==
    \A i, j \in DOMAIN registry : registry[i].id = registry[j].id => i = j

\* C36: a merge keeps the ids of the registry pairwise distinct, whatever record is
\* merged and however often a record with the same id is merged, and it neither removes
\* nor moves a tracked bet: every tracked bet is found at the index it had.
C36_MergeKeepsIdsAndIndexes ==
    [][/\ DistinctIds(bets) => DistinctIds(bets')
       /\ \A i \in DOMAIN bets : i \in DOMAIN bets' /\ bets'[i].id = bets[i].id]_vars

\* The store held one bet; a bet with another id has been inserted after it, and then a
\* record with the id of the stored bet was merged: the stored bet is still the first
\* and has the record's market fields, and the ids are distinct.
C36_Witness ==
    /\ merged # Nothing
    /\ stored_bets # NoFile
    /\ Len(read_bets(stored_bets)) = 1
    /\ Len(bets) = 2
    /\ DistinctIds(bets)
    /\ bets[1].id = read_bets(stored_bets)[1].id
    /\ merged[1].id = bets[1].id
    /\ bets[1].scaledLiquidityMeasure = merged[1].scaledLiquidityMeasure
    /\ bets[1].scaledLiquidityMeasure # read_bets(stored_bets)[1].scaledLiquidityMeasure
\* Every required field of the call is there and is not None.
AllFieldsGiven ==
    \A f \in REQUIRED_FIELDS :
        strategy_kwargs[f] # Nothing /\ strategy_kwargs[f][1] # Nothing

\* C37: whatever the call holds, run() returns a bet_amount that is at least 0 and at
\* most max(0, bankroll - floor_balance); the bet_amount is 0 when a required field is
\* absent or None, and when the bankroll is not above the floor balance.
C37_BetAmountWithinBankroll ==
    strategy_result # Nothing =>
        LET bet_amount == strategy_result[1].bet_amount
        IN /\ bet_amount >= 0
           /\ ~AllFieldsGiven => bet_amount = 0
           /\ AllFieldsGiven =>
                 LET bankroll == strategy_kwargs["bankroll"][1][1]
                     floor_balance == strategy_kwargs["floor_balance"][1][1]
                 IN /\ bet_amount <= IF bankroll - floor_balance > 0
                                     THEN bankroll - floor_balance ELSE 0
                    /\ bankroll <= floor_balance => bet_amount = 0

\* A call with every field and a bankroll above the floor balance returned a bet that
\* is positive and below the adjusted bankroll.
C37_Witness ==
    /\ strategy_result # Nothing
    /\ AllFieldsGiven
    /\ strategy_result[1].bet_amount > 0
    /\ strategy_result[1].bet_amount
          < strategy_kwargs["bankroll"][1][1] - strategy_kwargs["floor_balance"][1][1]
====
